---- MODULE Spec2Model ----
(***************************************************************************)
(* A model of the typesense-ts expression validators and request loop.     *)
(*                                                                         *)
(* The library validates filter / sort / eval expressions with recursive   *)
(* conditional types over string literal types.  A string literal type is *)
(* modelled as a sequence of one-character strings; a template-literal     *)
(* match `${infer A}${infer B}` gives A the first character and B the      *)
(* rest, and `${infer A}x${infer B}` splits at the first occurrence of x.  *)
(* The backtick character cannot be written inside a TLA+ string; it is    *)
(* written "'" throughout (in expressions and in messages alike).          *)
(***************************************************************************)
EXTENDS Integers, Sequences, FiniteSets, TLC

VARIABLES
    schema,   \* name of the collection the expression is validated against
    input,    \* the expression handed to ParseFilter (sequence of characters)
    T,        \* Tokenizer: the part of the expression still to scan
    Acc,      \* Tokenizer: the tokens accumulated so far
    pc,       \* the position of the validator or of the request
    result,   \* the type ParseFilter resolves to: Valid or a message
    config,   \* the Configuration handed to search / makeRequest
    now,      \* Date.now(), in milliseconds
    request,  \* the call made by the application
    frame,    \* the arguments of the running makeRequest
    node,     \* what getNextNode returned to the running makeRequest
    requests, \* the fetch calls issued so far
    responses,\* the responses received so far
    outcome,  \* how the promise of the call settled
    healthCalls \* the number of calls of setNodeHealth by the application

lexer == <<schema, input, T, Acc, result>>

http == <<config, now, request, frame, node, requests, responses, outcome,
          healthCalls>>

vars == <<schema, input, T, Acc, pc, result,
          config, now, request, frame, node, requests, responses, outcome,
          healthCalls>>

\* makeRequest has not been called, and no promise has settled.
NoFrame == [attempt |-> 0]
NoNodeYet == [nextIndex |-> 0]
Pending == [name |-> "pending"]

\* No request is made while an expression is validated on its own.
HttpIdle ==
    /\ config = "none"
    /\ now = 0
    /\ request = "none"
    /\ frame = NoFrame
    /\ node = NoNodeYet
    /\ requests = <<>>
    /\ responses = <<>>
    /\ outcome = Pending
    /\ healthCalls = 0

-----------------------------------------------------------------------------
(* Characters and strings                                                  *)

BT == "'"

Lower == {"a","b","c","d","e","f","g","h","i","j","k","l","m",
          "n","o","p","q","r","s","t","u","v","w","x","y","z"}
Upper == {"A","B","C","D","E","F","G","H","I","J","K","L","M",
          "N","O","P","Q","R","S","T","U","V","W","X","Y","Z"}

Char == Lower \cup Upper \cup {"_", "*", "-"}

Digit == {"0","1","2","3","4","5","6","7","8","9"}

NumericValue == Digit \cup {".", "-"}

EOF == <<>>

\* The text of a character sequence, for names and messages.
RECURSIVE Str(_)
Str(s) == IF s = <<>> THEN "" ELSE Head(s) \o Str(Tail(s))

Drop(s, n) == SubSeq(s, n + 1, Len(s))
Take(s, n) == SubSeq(s, 1, n)

\* Index of the first occurrence of character c in s at or after from; 0 if none.
IndexFrom(s, c, from) ==
    IF \E i \in from..Len(s) : s[i] = c
    THEN CHOOSE i \in from..Len(s) :
            s[i] = c /\ \A j \in from..(i - 1) : s[j] # c
    ELSE 0

IsEmpty(s) == Len(s) = 0

-----------------------------------------------------------------------------
(* Tokens                                                                  *)

\* keyof TokenMap, by length of the key.
TokenMap3 == {":<=", ":>=", ":!="}
TokenMap2 == {"&&", "||", ":=", ":>", ":<", ":!", ":[", ".."}
TokenMap1 == {":", "(", ")", "<", ">", "]", ",", "$"}

Sym(v) == [kind |-> "sym", value |-> v]
LiteralToken(v) == [kind |-> "literal", value |-> v]
NumToken(v) == [kind |-> "int", value |-> v]
Ident(n, t) == [kind |-> "ident", name |-> n, type |-> t]
ReferenceToken(c, cl) == [kind |-> "reference", collection |-> c, clause |-> cl]

\* What ReadToken yields when it reads no token: [Acc, Rest] = ["", T].
NoToken == [kind |-> "none"]

IsSym(t, vs) == t.kind = "sym" /\ t.value \in vs

-----------------------------------------------------------------------------
(* Schema registry                                                         *)

\* A field without a reference carries reference = "", a field without a
\* sort attribute carries sort = "unset".
Field(n, t) == [name |-> n, type |-> t, reference |-> "", sort |-> "unset"]
RefField(n, t, r) == [name |-> n, type |-> t, reference |-> r, sort |-> "unset"]
SortField(n, t, srt) == [name |-> n, type |-> t, reference |-> "", sort |-> srt]

\* The collections the validators are exercised on: the three registered
\* collections of the filter tests, one collection covering the remaining
\* field types, a collection that is declared but never registered, and a
\* collection with sortable fields whose names begin with `desc` and `asc`
\* and a field of each type that TypeToOperatorMap has no entry for.
Collections ==
    [ users |->
        [name |-> "users",
         fields |-> <<Field("id", "string"), Field("name", "string"),
                      SortField("age", "int32", "true"),
                      Field("email", "string")>>],
      posts |->
        [name |-> "posts",
         fields |-> <<Field("id", "string"), Field("title", "string"),
                      Field("content", "string"),
                      RefField("author", "string", "users.id")>>],
      comments |->
        [name |-> "comments",
         fields |-> <<Field("id", "string"), Field("content", "string"),
                      RefField("post", "string", "posts.id")>>],
      items |->
        [name |-> "items",
         fields |-> <<Field("id", "string"),
                      Field("ok", "bool"), Field("qty", "int64"),
                      Field("price", "float"), Field("sizes", "int32[]"),
                      Field("flags", "bool[]"), Field("tags", "string[]"),
                      Field("loc", "geopoint"),
                      SortField("hits", "int64", "false"),
                      SortField("label", "string", "true"),
                      SortField("memo", "string", "false"),
                      SortField("pin", "bool", "true"),
                      RefField("parent", "string", "items.parent"),
                      RefField("owner", "string", "users.nick")>>],
      unregistered |->
        [name |-> "unregistered",
         fields |-> <<Field("id", "string")>>],
      notes |->
        [name |-> "notes",
         fields |-> <<Field("id", "string"),
                      SortField("description", "string", "true"),
                      Field("ascent", "int32"),
                      Field("rank", "int32"),
                      Field("tags", "string[]"), Field("loc", "geopoint"),
                      Field("places", "geopoint[]"), Field("meta", "object"),
                      Field("parts", "object[]"), Field("any", "auto"),
                      Field("words", "string*"), Field("cover", "image")>>] ]

\* keyof GlobalCollections: the names registered by module augmentation.
Registered == {"users", "posts", "comments", "items"}

GlobalCollections == [n \in Registered |-> Collections[n]]

FieldNames(Schema) == {Schema.fields[i].name : i \in DOMAIN Schema.fields}

\* FieldTypeMap<Schema>[name]
FieldTypeMap(Schema, n) ==
    LET i == CHOOSE j \in DOMAIN Schema.fields : Schema.fields[j].name = n
    IN  Schema.fields[i].type


-----------------------------------------------------------------------------
(* Scanner primitives                                                      *)

\* T extends `'${string}'${string}`: a backtick, and a later backtick.
IsEscaped(s) == Len(s) >= 2 /\ s[1] = BT /\ IndexFrom(s, BT, 2) # 0

\* ReadEscapeToken<T>: [Content, Tail] up to the first closing backtick,
\* [Acc, Rest] = ["", T] when the pattern does not match.
ReadEscapeToken(s) ==
    IF IsEscaped(s)
    THEN LET j == IndexFrom(s, BT, 2)
         IN  <<SubSeq(s, 2, j - 1), Drop(s, j)>>
    ELSE <<EOF, s>>

\* ReadString<T>: the first character must be a Char, the following ones
\* may be a Char or a Digit.
RECURSIVE ReadString(_, _, _, _)
ReadString(s, acc, rest, FirstCharProcessed) ==
    IF s = <<>> THEN <<acc, rest>>
    ELSE IF ~FirstCharProcessed
         THEN IF Head(s) \in Char
              THEN ReadString(Tail(s), Append(acc, Head(s)), Tail(s), TRUE)
              ELSE <<acc, rest>>
         ELSE IF Head(s) \in Char \cup Digit
              THEN ReadString(Tail(s), Append(acc, Head(s)), Tail(s), TRUE)
              ELSE <<acc, rest>>

\* ReadNum<T>
RECURSIVE ReadNum(_, _, _, _, _)
ReadNum(s, acc, rest, DotEncountered, FirstCharProcessed) ==
    IF s = <<>> THEN <<acc, rest>>
    ELSE IF Head(s) \notin NumericValue THEN <<acc, rest>>
    ELSE IF Head(s) = "."
         THEN IF DotEncountered THEN <<acc, rest>>
              ELSE IF FirstCharProcessed
                   THEN IF Tail(s) # <<>> /\ Head(Tail(s)) \in Digit
                        THEN ReadNum(Tail(s), Append(acc, "."), Tail(s), TRUE, TRUE)
                        ELSE <<acc, s>>
                   ELSE <<acc, rest>>
    ELSE IF Head(s) = "-"
         THEN IF FirstCharProcessed THEN <<acc, rest>>
              ELSE ReadNum(Tail(s), Append(acc, "-"), Tail(s), DotEncountered, TRUE)
    ELSE ReadNum(Tail(s), Append(acc, Head(s)), Tail(s), DotEncountered, TRUE)

\* ReadNestedReferenceToken<T, Collection, Clause, Depth>
RECURSIVE ReadNestedReferenceToken(_, _, _, _)
ReadNestedReferenceToken(s, Collection, Clause, Depth) ==
    IF s # <<>> /\ Head(s) = "("
    THEN ReadNestedReferenceToken(Tail(s), Collection, Append(Clause, "("), Depth + 1)
    ELSE IF s # <<>> /\ Head(s) = ")"
    THEN IF Depth = 0
         THEN <<ReferenceToken(Collection, Clause), Tail(s)>>
         ELSE ReadNestedReferenceToken(Tail(s), Collection, Append(Clause, ")"), Depth - 1)
    ELSE IF s # <<>>
    THEN ReadNestedReferenceToken(Tail(s), Collection, Append(Clause, Head(s)), Depth)
    ELSE <<ReferenceToken(Collection, Clause), EOF>>

\* ReadToken<T> of the filter grammar: a join reference, else the longest
\* key of TokenMap among the first three, two, one characters.  The three
\* character pattern has to match before the shorter keys are tried.
ReadToken(s) ==
    IF Len(s) >= 1 /\ s[1] = "$" /\ IndexFrom(s, "(", 2) # 0
    THEN LET j == IndexFrom(s, "(", 2)
         IN  ReadNestedReferenceToken(Drop(s, j), Str(SubSeq(s, 2, j - 1)), <<>>, 0)
    ELSE IF Len(s) >= 3
    THEN IF Str(Take(s, 3)) \in TokenMap3 THEN <<Sym(Str(Take(s, 3))), Drop(s, 3)>>
         ELSE IF Str(Take(s, 2)) \in TokenMap2 THEN <<Sym(Str(Take(s, 2))), Drop(s, 2)>>
         ELSE IF s[1] \in TokenMap1 THEN <<Sym(s[1]), Drop(s, 1)>>
         ELSE <<NoToken, s>>
    ELSE <<NoToken, s>>

-----------------------------------------------------------------------------
(* Filter grammar: Tokenizer                                               *)

\* What unbounded recursion of a conditional type resolves to: the compiler
\* gives up with error TS2589 and the expression has no validation result.
TooDeep == "Type instantiation is excessively deep and possibly infinite."

Valid == "true"

\* One unfolding of Tokenizer<T, Schema, Acc> on a non-empty T: the token
\* appended to Acc (NoToken for a skipped space), the T of the recursive
\* call, and the message when the unfolding resolves to `Unknown token`.
TokenizerStep(s, Schema) ==
    IF IsEscaped(s)
    THEN [tok |-> LiteralToken(ReadEscapeToken(s)[1]),
          rest |-> ReadEscapeToken(s)[2], err |-> ""]
    ELSE IF ReadToken(s)[1] # NoToken
    THEN [tok |-> ReadToken(s)[1], rest |-> ReadToken(s)[2], err |-> ""]
    ELSE IF Head(s) \in TokenMap1
    THEN [tok |-> Sym(Head(s)), rest |-> Tail(s), err |-> ""]
    ELSE IF Head(s) = " "
    THEN [tok |-> NoToken, rest |-> Tail(s), err |-> ""]
    ELSE IF Head(s) \in Char
    THEN LET r == ReadString(s, <<>>, s, FALSE)
         IN  IF Str(r[1]) \in FieldNames(Schema)
             THEN [tok |-> Ident(Str(r[1]), FieldTypeMap(Schema, Str(r[1]))),
                   rest |-> r[2], err |-> ""]
             ELSE [tok |-> LiteralToken(r[1]), rest |-> r[2], err |-> ""]
    ELSE IF Head(s) \in NumericValue
    THEN LET r == ReadNum(s, <<>>, s, FALSE, FALSE)
         IN  [tok |-> NumToken(r[1]), rest |-> r[2], err |-> ""]
    ELSE [tok |-> NoToken, rest |-> s, err |-> "Unknown token: " \o Head(s)]

\* Tokenizer<T, Schema, Acc>: the token list, or the message of the first
\* unknown character.  An unfolding that leaves T as it is recurses forever.
RECURSIVE Tokenizer(_, _, _)
Tokenizer(s, Schema, acc) ==
    IF s = EOF THEN [tokens |-> acc, err |-> ""]
    ELSE LET st == TokenizerStep(s, Schema)
         IN  IF st.err # "" THEN [tokens |-> <<>>, err |-> st.err]
             ELSE IF st.rest = s THEN [tokens |-> <<>>, err |-> TooDeep]
             ELSE Tokenizer(st.rest, Schema,
                            IF st.tok = NoToken THEN acc ELSE Append(acc, st.tok))

-----------------------------------------------------------------------------
(* Filter grammar: next-token tables                                       *)

\* TNext[0]; indexing the empty tuple gives undefined, which extends none
\* of the token types.
Undefined == [kind |-> "undefined"]
First(TNext) == IF TNext = <<>> THEN Undefined ELSE TNext[1]

\* The member of the Token union a token belongs to: the symbol itself, or
\* the interface it instantiates.
Class(t) ==
    CASE t.kind = "sym" -> t.value
      [] t.kind = "ident" -> "Ident"
      [] t.kind = "literal" -> "LiteralToken"
      [] t.kind = "int" -> "NumToken"
      [] t.kind = "reference" -> "ReferenceToken"
      [] OTHER -> "undefined"

\* interface OperatorMap: for each key the tokens that may follow it and
\* whether it may end the expression.
OperatorKeys ==
    {"(", ")", ":<", ":>", ":=", ":>=", ":<=", "!=", ":", "&&", "||",
     ":[", "]", ">", "<", "..", ","}

\* ValidNextParenMap with the entry of `)` widened by the value tokens.
ValidNextParenMapWithValues(p) ==
    IF p = "(" THEN {"Ident", "("}
    ELSE {")", "&&", "||", "LiteralToken", "NumToken"}

\* interface ValidNextParenMap
ValidNextParenMap(p) ==
    IF p = "(" THEN {"Ident", "("} ELSE {")", "&&", "||"}

OperatorMap(k) ==
    CASE k = "(" -> [valid |-> ValidNextParenMap("("), empty |-> FALSE]
      [] k = ")" -> [valid |-> ValidNextParenMap(")"), empty |-> TRUE]
      [] k \in {":<", ":>", ":=", ":>=", ":<=", "!=", ":"} ->
            [valid |-> {"LiteralToken", "NumToken"}, empty |-> FALSE]
      [] k = "&&" -> [valid |-> {"(", "Ident", "ReferenceToken"}, empty |-> FALSE]
      [] k = "||" -> [valid |-> {"(", "Ident"}, empty |-> FALSE]
      [] k = ":[" -> [valid |-> {"NumToken", ">", "<", "LiteralToken"}, empty |-> FALSE]
      [] k = "]" -> [valid |-> {"&&", "||", ")"}, empty |-> TRUE]
      [] k \in {">", "<", ".."} -> [valid |-> {"NumToken"}, empty |-> FALSE]
      [] k = "," -> [valid |-> {"NumToken", ">", "<", "LiteralToken"}, empty |-> FALSE]

\* TypeToOperatorMap with string[] given the operators of string.
TypeToOperatorMapWithStringArrays(type) ==
    CASE type \in {"string", "string[]"} -> {":=", ":", ":!=", ":["}
      [] type \in {"int32", "int64", "float"} ->
            {":<", ":>", ":=", ":>=", ":<=", ":!=", ":["}
      [] type = "bool" -> {":=", ":!="}
      [] type \in {"int32[]", "int64[]", "float[]"} -> {":<", ":>", ":="}
      [] type = "bool[]" -> {":="}
      [] OTHER -> {}

\* interface TypeToOperatorMap; a type without an entry maps to never.
TypeToOperatorKeys ==
    {"string", "int32", "int64", "float", "bool",
     "int32[]", "int64[]", "float[]", "bool[]"}

TypeToOperatorMap(type) ==
    CASE type = "string" -> {":=", ":", ":!=", ":["}
      [] type \in {"int32", "int64", "float"} ->
            {":<", ":>", ":=", ":>=", ":<=", ":!=", ":["}
      [] type = "bool" -> {":=", ":!="}
      [] type \in {"int32[]", "int64[]", "float[]"} -> {":<", ":>", ":="}
      [] type = "bool[]" -> {":="}
      [] OTHER -> {}

\* ValidNextTokenMap<Fields>[name] for a field name of the schema.
ValidNextTokenMap(Schema, n) == TypeToOperatorMap(FieldTypeMap(Schema, n))

\* GetTokenType<T>
GetTokenType(t) ==
    CASE t.kind = "int" -> "num token"
      [] t.kind = "literal" -> "literal token"
      [] t.kind = "ident" -> "identifier"
      [] IsSym(t, {"(", ")", "&&", "||", ",", "..", "]", ">", "<"}) ->
            BT \o t.value \o BT
      [] t.kind = "reference" -> "join to another collection"
      [] IsSym(t, OperatorKeys) -> BT \o t.value \o BT
      [] OTHER -> "Unknown"

-----------------------------------------------------------------------------
(* Filter grammar: validation                                              *)

\* IsFieldReferenced<CurrentCollection, CurrentField>: the registered
\* collections that declare a field referencing that field.
IsFieldReferenced(CurrentCollection, CurrentField) ==
    {c \in Registered :
        \E i \in DOMAIN GlobalCollections[c].fields :
            GlobalCollections[c].fields[i].reference =
                CurrentCollection \o "." \o CurrentField}

\* CheckReferences[name] = HasReferencedFields<name, fields of name>
CheckReferences(n) ==
    UNION {IsFieldReferenced(n, f) : f \in FieldNames(GlobalCollections[n])}

\* IsValidValue accepting whatever follows the value.
IsValidValueAnyNext(TCurrent, TNext) == Valid

\* IsValidValue<TCurrent, TNext>
IsValidValue(TCurrent, TNext) ==
    IF Class(First(TNext)) \in
          {")", "&&", "||", ","} \cup
          (IF TCurrent.kind = "int" THEN {"..", "]"} ELSE {"]"})
    THEN Valid
    ELSE IF IsEmpty(TNext) THEN Valid
    ELSE "Invalid token sequence: "
           \o (IF TCurrent.kind = "int" THEN "Num Token " ELSE "Literal Token ")
           \o BT \o Str(TCurrent.value) \o BT
           \o " followed by " \o GetTokenType(First(TNext))

\* IsValidIdentifier<CurrentToken, Fields, NextToken>
IsValidIdentifier(CurrentToken, Schema, NextToken) ==
    IF Class(First(NextToken)) \in ValidNextTokenMap(Schema, CurrentToken.name)
    THEN Valid
    ELSE "Invalid token sequence: identifier with name "
           \o BT \o CurrentToken.name \o BT
           \o " followed by " \o GetTokenType(First(NextToken))

\* IsValidToken<T, Schema, TNext>
IsValidToken(k, TNext) ==
    IF Class(First(TNext)) \in OperatorMap(k).valid THEN Valid
    ELSE IF OperatorMap(k).empty /\ IsEmpty(TNext) THEN Valid
    ELSE "Invalid token sequence: " \o BT \o k \o BT
           \o " followed by " \o GetTokenType(First(TNext))

\* The message of the clause passed on without the prefix.
JoinErrorUnprefixed(JoinedCollectionName, inner) == inner

\* The template `[Error on filter for joined collection ...]: ${Parse<...>}`
JoinError(JoinedCollectionName, inner) ==
    "[Error on filter for joined collection " \o BT \o JoinedCollectionName
        \o BT \o "]: " \o inner

RECURSIVE Parse(_, _)

\* A verdict, and if it is Valid the verdict of what follows.
AndThen(v, rest) == IF v = Valid THEN rest ELSE v

\* IsValidJoin once the clause is parsed: inner is Parse<JoinClause, ...>.
JoinVerdict(JoinedCollectionName, inner, TNext) ==
    IF inner = TooDeep THEN TooDeep
    ELSE IF inner # Valid THEN JoinError(JoinedCollectionName, inner)
    ELSE IF Class(First(TNext)) \in {"||", "&&"} THEN Valid
    ELSE IF IsEmpty(TNext) THEN Valid
    ELSE "Invalid token sequence: " \o GetTokenType(First(TNext))
           \o " cannot be the next token after a join"

\* IsValidJoin looking up the joined collection before the current one.
IsValidJoinJoinedFirst(Schema, JoinedCollectionName, JoinClause, TNext) ==
    IF JoinedCollectionName \notin Registered
    THEN "Collection " \o BT \o JoinedCollectionName \o BT \o " not registered"
    ELSE IF Schema.name \notin Registered
    THEN "Collection " \o BT \o Schema.name \o BT \o " not registered"
    ELSE IF JoinedCollectionName \notin CheckReferences(Schema.name)
    THEN "Collection " \o BT \o JoinedCollectionName \o BT
           \o " not referenced in " \o BT \o Schema.name \o BT
    ELSE JoinVerdict(JoinedCollectionName,
                     Parse(JoinClause, GlobalCollections[JoinedCollectionName]),
                     TNext)

\* IsValidJoin<Schema, JoinedCollectionName, JoinClause, TNext>
IsValidJoin(Schema, JoinedCollectionName, JoinClause, TNext) ==
    IF Schema.name \notin Registered
    THEN "Collection " \o BT \o Schema.name \o BT \o " not registered"
    ELSE IF JoinedCollectionName \notin Registered
    THEN "Collection " \o BT \o JoinedCollectionName \o BT \o " not registered"
    ELSE IF JoinedCollectionName \notin CheckReferences(Schema.name)
    THEN "Collection " \o BT \o JoinedCollectionName \o BT
           \o " not referenced in " \o BT \o Schema.name \o BT
    ELSE JoinVerdict(JoinedCollectionName,
                     Parse(JoinClause, GlobalCollections[JoinedCollectionName]),
                     TNext)

\* IsNextTokenValid<Current, Schema, TNext>
IsNextTokenValid(Current, Schema, TNext) ==
    IF Current.kind \in {"int", "literal"} THEN IsValidValue(Current, TNext)
    ELSE IF Current.kind = "ident" THEN IsValidIdentifier(Current, Schema, TNext)
    ELSE IF IsSym(Current, OperatorKeys) THEN IsValidToken(Current.value, TNext)
    ELSE IF Current.kind = "reference"
    THEN IsValidJoin(Schema, Current.collection, Current.clause, TNext)
    ELSE "Invalid token sequence: Unknown token followed by "
           \o BT \o GetTokenType(First(TNext)) \o BT

\* type ValidStarts
ValidStarts(t) ==
    IsSym(t, {"("}) \/ t.kind \in {"ident", "int", "literal", "reference"}

\* IsValidArray<TokenArray, Schema, Acc, FirstTokenProcessed>
RECURSIVE IsValidArray(_, _, _, _)
IsValidArray(TokenArray, Schema, acc, FirstTokenProcessed) ==
    IF TokenArray # <<>>
    THEN LET H == Head(TokenArray)
             Tl == Tail(TokenArray)
         IN  IF ~FirstTokenProcessed
             THEN IF ValidStarts(H)
                  THEN IF IsEmpty(Tl)
                       THEN IF H.kind = "reference"
                            THEN IsValidJoin(Schema, H.collection, H.clause, <<>>)
                            ELSE "Invalid token sequence: " \o GetTokenType(H)
                                   \o " cannot be the only token"
                       ELSE IsValidArray(Tl, Schema, Append(acc, H), TRUE)
                  ELSE "Invalid start token: " \o GetTokenType(H)
             ELSE AndThen(IsNextTokenValid(H, Schema, Tl),
                          IsValidArray(Tl, Schema, Append(acc, H), TRUE))
    ELSE IF ~IsEmpty(acc)
         THEN IsNextTokenValid(acc[1], Schema, Tail(acc))
         ELSE Valid

\* CheckBalancedTokens<Token, TokenArray, [open, close], Stack>; the stack
\* only ever holds the opening token, so its depth stands for it.
RECURSIVE CheckBalancedTokens(_, _, _, _)
CheckBalancedTokens(TokenArray, open, close, Stack) ==
    IF TokenArray # <<>>
    THEN IF IsSym(Head(TokenArray), {open})
         THEN CheckBalancedTokens(Tail(TokenArray), open, close, Stack + 1)
         ELSE IF IsSym(Head(TokenArray), {close})
         THEN IF Stack > 0
              THEN CheckBalancedTokens(Tail(TokenArray), open, close, Stack - 1)
              ELSE FALSE
         ELSE CheckBalancedTokens(Tail(TokenArray), open, close, Stack)
    ELSE Stack = 0

CheckParentheses(TokenArray) == CheckBalancedTokens(TokenArray, "(", ")", 0)
CheckSquareBrackets(TokenArray) == CheckBalancedTokens(TokenArray, ":[", "]", 0)

\* The part of Parse that follows a successful Tokenizer.
ParseTokens(Tokens, Schema) ==
    AndThen(IsValidArray(Tokens, Schema, <<>>, FALSE),
            IF CheckParentheses(Tokens)
            THEN IF CheckSquareBrackets(Tokens) THEN Valid
                 ELSE "Square brackets are not balanced"
            ELSE "Parentheses are not balanced")

\* Parse once the Tokenizer is done: its message, or the validation of
\* its tokens.
ParseTokenized(tk, Schema) ==
    IF tk.err # "" THEN tk.err ELSE ParseTokens(tk.tokens, Schema)

\* Parse<T, Schema>, exported as ParseFilter.
Parse(s, Schema) == ParseTokenized(Tokenizer(s, Schema, <<>>), Schema)

-----------------------------------------------------------------------------
(* The expressions and schemas the validator is run on                     *)

\* Lexemes: id, := , :!= , x, 20, -, ., (, ), :[, ], &&, ||, the comma,
\* $posts( , ! and the space.  id is a string field of every collection.
L_id == <<"i", "d">>
L_eq == <<":", "=">>
L_neq == <<":", "!", "=">>
L_x == <<"x">>
L_20 == <<"2", "0">>
L_minus == <<"-">>
L_dot == <<".">>
L_lp == <<"(">>
L_rp == <<")">>
L_lsq == <<":", "[">>
L_rsq == <<"]">>
L_and == <<"&", "&">>
L_or == <<"|", "|">>
L_comma == <<",">>
L_posts == <<"$", "p", "o", "s", "t", "s", "(">>
L_bang == <<"!">>
L_sp == <<" ">>

Vocabulary ==
    {L_id, L_eq, L_neq, L_x, L_20, L_minus,
     L_dot, L_lp, L_rp, L_lsq, L_rsq, L_and,
     L_or, L_comma, L_posts, L_bang, L_sp}

\* Beginnings of an expression: id:=x, (id:=x, ((id:=x, id:[x, id:=x&&,
\* id:=x||, $posts(id:=x and $posts($comments(id:=x.
P_cmp == <<"i", "d", ":", "=", "x">>
P_open == <<"(", "i", "d", ":", "=", "x">>
P_open2 == <<"(", "(", "i", "d", ":", "=", "x">>
P_list == <<"i", "d", ":", "[", "x">>
P_and == <<"i", "d", ":", "=", "x", "&", "&">>
P_or == <<"i", "d", ":", "=", "x", "|", "|">>
P_join == <<"$", "p", "o", "s", "t", "s", "(", "i", "d", ":", "=", "x">>
P_nest == <<"$", "p", "o", "s", "t", "s", "(", "$", "c", "o", "m", "m", "e", "n", "t", "s", "(", "i", "d", ":", "=", "x">>

Prefixes ==
    {<<>>, P_cmp, P_open, P_open2, P_list, P_and,
     P_or, P_join, P_nest}

\* The number of lexemes appended to a prefix.
MaxPieces == 2

\* Tails[n]: the concatenations of at most n lexemes.
Tails[n \in 0..MaxPieces] ==
    IF n = 0 THEN {<<>>}
    ELSE Tails[n - 1] \cup {t \o v : t \in Tails[n - 1], v \in Vocabulary}

General == {p \o t : p \in Prefixes, t \in Tails[MaxPieces]}

\* Joins $B(clause) and $B(clause for the collection names users, posts,
\* comments, items and products, and the clauses id:=x, :=x, (id:=x,
\* $comments(id:=x), $comments(:=x), $users(id:=x), $items(id:=x), id:=x!
N_users == <<"u", "s", "e", "r", "s">>
N_posts == <<"p", "o", "s", "t", "s">>
N_comments == <<"c", "o", "m", "m", "e", "n", "t", "s">>
N_items == <<"i", "t", "e", "m", "s">>
N_products == <<"p", "r", "o", "d", "u", "c", "t", "s">>
C_ok == <<"i", "d", ":", "=", "x">>
C_start == <<":", "=", "x">>
C_open == <<"(", "i", "d", ":", "=", "x">>
C_nested == <<"$", "c", "o", "m", "m", "e", "n", "t", "s", "(", "i", "d", ":", "=", "x", ")">>
C_nestedBad == <<"$", "c", "o", "m", "m", "e", "n", "t", "s", "(", ":", "=", "x", ")">>
C_back == <<"$", "u", "s", "e", "r", "s", "(", "i", "d", ":", "=", "x", ")">>
C_self == <<"$", "i", "t", "e", "m", "s", "(", "i", "d", ":", "=", "x", ")">>
C_lex == <<"i", "d", ":", "=", "x", "!">>

JoinNames == {N_users, N_posts, N_comments, N_items, N_products}
JoinClauses ==
    {C_ok, C_start, C_open, C_nested,
     C_nestedBad, C_back, C_self, C_lex}

Joins ==
    {<<"$">> \o b \o <<"(">> \o c \o e :
        b \in JoinNames, c \in JoinClauses, e \in {<<")">>, <<>>}}

\* Comparisons f op v of every field name of users and items, every
\* operator-like key of TokenMap and the values x and 5.
CmpFields ==
    {<<"i", "d">>, <<"n", "a", "m", "e">>, <<"a", "g", "e">>,
     <<"e", "m", "a", "i", "l">>, <<"o", "k">>, <<"q", "t", "y">>,
     <<"p", "r", "i", "c", "e">>, <<"s", "i", "z", "e", "s">>, <<"f", "l", "a", "g", "s">>,
     <<"t", "a", "g", "s">>, <<"l", "o", "c">>, <<"p", "a", "r", "e", "n", "t">>,
     <<"o", "w", "n", "e", "r">>}
CmpOperators ==
    {<<":", "=">>, <<":", "!", "=">>, <<":">>, <<":", "<">>, <<":", ">">>,
     <<":", "<", "=">>, <<":", ">", "=">>, <<":", "[">>, <<":", "!">>, <<"<">>,
     <<">">>, <<".", ".">>, <<",">>}
CmpValues == {<<"x">>, <<"5">>}

Comparisons ==
    {f \o o \o v : f \in CmpFields, o \in CmpOperators, v \in CmpValues}

\* Expressions with a backtick literal: the contents a, a), (a, :a, a b and
\* the empty one, closed or not, as the only token, after id:= , between
\* parentheses and inside the clause of a join on posts.
EscapeContents ==
    {<<"a">>, <<"a", ")">>, <<"(", "a">>, <<":", "a">>, <<"a", " ", "b">>, <<>>}
EscapeLiterals ==
    {<<BT>> \o k \o e : k \in EscapeContents, e \in {<<BT>>, <<>>}}
Escapes ==
    EscapeLiterals
    \cup {P_cmp \o l : l \in EscapeLiterals}
    \cup {<<"(", "i", "d", ":", "=">> \o l \o <<")">> : l \in EscapeLiterals}
    \cup {L_posts \o <<"i", "d", ":", "=">> \o l \o e :
              l \in EscapeLiterals, e \in {<<")">>, <<>>}}

\* Expressions with a value that is no operand, with a comma and with `..`
\* outside a list, and the same values in a list, a range and a comparison.
BareValues ==
    {<<"f", "o", "o", " ", "&", "&", " ", "a", "g", "e", ":", ">", "3", "0">>,
     <<"a", "g", "e", ":", "=", "2", "0", ",", "3", "0">>,
     <<"a", "g", "e", ":", "=", "2", "0", ".", ".", "3", "0">>,
     <<"a", "g", "e", ":", "[", "2", "0", ",", "3", "0", "]">>,
     <<"a", "g", "e", ":", "[", "2", "0", ".", ".", "3", "0", "]">>,
     <<"a", "g", "e", ":", ">", "3", "0", " ", "&", "&", " ", "n", "a", "m", "e", ":", "=", "f", "o", "o">>}

\* The fields of notes whose type has no entry in TypeToOperatorMap, alone,
\* after `(` and after a comparison and `&&`, followed by every
\* operator-like key, by `)`, by `&&` or by nothing, and then by a value
\* or by nothing.
UnsupportedNames ==
    {<<"t", "a", "g", "s">>, <<"l", "o", "c">>, <<"p", "l", "a", "c", "e", "s">>,
     <<"m", "e", "t", "a">>, <<"p", "a", "r", "t", "s">>, <<"a", "n", "y">>,
     <<"w", "o", "r", "d", "s">>, <<"c", "o", "v", "e", "r">>}
Unsupported ==
    {b \o f \o o \o v :
        b \in {<<>>, <<"(">>, <<"r", "a", "n", "k", ":", "=", "5", "&", "&">>},
        f \in UnsupportedNames,
        o \in CmpOperators \cup {<<>>, <<")">>, <<"&", "&">>},
        v \in CmpValues \cup {<<>>}}

\* The (schema, expression) pairs validated.
Cases ==
    ({"users"} \X General)
    \cup ((DOMAIN Collections) \X Joins)
    \cup ({"users", "items"} \X Comparisons)
    \cup ({"users"} \X Escapes)
    \cup ({"users"} \X BareValues)
    \cup ({"notes"} \X Unsupported)

-----------------------------------------------------------------------------
(* ParseFilter as a state machine: the Tokenizer unfolds one token at a    *)
(* time, then the token list is validated.                                 *)

Init ==
    /\ \E c \in Cases : schema = c[1] /\ input = c[2]
    /\ T = input
    /\ Acc = <<>>
    /\ pc = "scan"
    /\ result = "none"
    /\ HttpIdle

\* One unfolding of Tokenizer on a non-empty T that reads a token or skips
\* a space and goes on with a shorter T.
Scan ==
    /\ pc = "scan"
    /\ T # EOF
    /\ LET st == TokenizerStep(T, Collections[schema])
       IN  /\ st.err = ""
           /\ st.rest # T
           /\ T' = st.rest
           /\ Acc' = IF st.tok = NoToken THEN Acc ELSE Append(Acc, st.tok)
    /\ UNCHANGED <<schema, input, pc, result>>
    /\ UNCHANGED http

\* The unfolding that resolves to `Unknown token: ${Head}`.
ScanUnknown ==
    /\ pc = "scan"
    /\ T # EOF
    /\ TokenizerStep(T, Collections[schema]).err # ""
    /\ result' = TokenizerStep(T, Collections[schema]).err
    /\ pc' = "done"
    /\ UNCHANGED <<schema, input, T, Acc>>
    /\ UNCHANGED http

\* The unfolding recurses on the same T with a longer Acc: the recursion
\* has no end.
GiveUp ==
    /\ pc = "scan"
    /\ T # EOF
    /\ TokenizerStep(T, Collections[schema]).err = ""
    /\ TokenizerStep(T, Collections[schema]).rest = T
    /\ result' = TooDeep
    /\ pc' = "done"
    /\ UNCHANGED <<schema, input, T, Acc>>
    /\ UNCHANGED http

\* T is empty: Tokenizer resolves to Acc and Parse validates the tokens.
Validate ==
    /\ pc = "scan"
    /\ T = EOF
    /\ result' = ParseTokens(Acc, Collections[schema])
    /\ pc' = "done"
    /\ UNCHANGED <<schema, input, T, Acc>>
    /\ UNCHANGED http

Next == Scan \/ ScanUnknown \/ GiveUp \/ Validate

Spec == Init /\ [][Next]_vars

\* The stepwise Tokenizer and the recursive one agree.
ResultIsParse ==
    pc = "done" => result = Parse(input, Collections[schema])

-----------------------------------------------------------------------------
(* Properties                                                              *)

\* The Tokenizer reached the end of the expression and Parse validated the
\* token list.
Tokenized == pc = "done" /\ T = EOF

After(i) == SubSeq(Acc, i + 1, Len(Acc))

\* The expression with the content of its backtick literals removed.
RECURSIVE Unescaped(_)
Unescaped(s) ==
    IF s = <<>> THEN <<>>
    ELSE IF IsEscaped(s) THEN Unescaped(ReadEscapeToken(s)[2])
    ELSE <<Head(s)>> \o Unescaped(Tail(s))

Count(s, c) == Cardinality({i \in DOMAIN s : s[i] = c})
CountOpenSquare(s) ==
    Cardinality({i \in 1..(Len(s) - 1) : s[i] = ":" /\ s[i + 1] = "["})

BalancedText(s) ==
    /\ Count(Unescaped(s), "(") = Count(Unescaped(s), ")")
    /\ CountOpenSquare(Unescaped(s)) = Count(Unescaped(s), "]")

\* C1: a Valid filter expression has as many `(` as `)` and as many `:[`
\* as `]`, the parentheses of its join clauses included.
C1_ValidImpliesBalanced ==
    (pc = "done" /\ result = Valid) => BalancedText(input)

\* C2: every unfolding of the Tokenizer on a non-empty remaining input
\* that does not end with `Unknown token` recurses on a strictly shorter
\* remaining input, and the validation ends with Valid or with a message
\* of the validator.
C2_ScanConsumes ==
    /\ (pc = "scan" /\ T # EOF /\ TokenizerStep(T, Collections[schema]).err = "")
          => Len(TokenizerStep(T, Collections[schema]).rest) < Len(T)
    /\ pc = "done" => result # TooDeep

\* C3: when the first token of a scanned expression is not a valid start
\* token, the result is `Invalid start token: ` followed by that token
\* between backticks.
C3_StartTokenNamed ==
    (Tokenized /\ Acc # <<>> /\ ~ValidStarts(Acc[1]))
        => result = "Invalid start token: " \o BT \o Acc[1].value \o BT

\* C4: a clause `f op v` on a field whose type has an entry in the
\* type-to-operator table is Valid exactly when op is in the entry of the
\* type of f (op ranges over the comparison operators; `:[` opens a list).
C4_OperatorTable ==
    (/\ Tokenized
     /\ Len(Acc) = 3
     /\ Acc[1].kind = "ident"
     /\ Acc[1].type \in TypeToOperatorKeys
     /\ Acc[2].kind = "sym"
     /\ Acc[2].value # ":["
     /\ Acc[3].kind \in {"literal", "int"})
        => (result = Valid <=> Acc[2].value \in TypeToOperatorMap(Acc[1].type))

\* B declares a field whose reference is A.<a field of A>.
DeclaresReferenceTo(B, A) ==
    \E i \in DOMAIN Collections[B].fields :
        \E f \in FieldNames(Collections[A]) :
            Collections[B].fields[i].reference = A \o "." \o f

Wrapped(B, inner) ==
    "[Error on filter for joined collection " \o BT \o B \o BT \o "]: " \o inner

JoinOutcome(A, B, clause) ==
    IF A \notin Registered
    THEN "Collection " \o BT \o A \o BT \o " not registered"
    ELSE IF B \notin Registered
    THEN "Collection " \o BT \o B \o BT \o " not registered"
    ELSE IF ~DeclaresReferenceTo(B, A)
    THEN "Collection " \o BT \o B \o BT \o " not referenced in " \o BT \o A \o BT
    ELSE IF Parse(clause, Collections[B]) # Valid
    THEN Wrapped(B, Parse(clause, Collections[B]))
    ELSE Valid

\* C5: an expression that is one join $B(clause), validated against A,
\* results in `A not registered`, else `B not registered`, else `B not
\* referenced in A`, else the wrapped error of the clause, else Valid; and
\* every join of a Valid expression meets the four conditions.
C5_JoinConditions ==
    /\ (Tokenized /\ Len(Acc) = 1 /\ Acc[1].kind = "reference" /\ result # TooDeep)
          => result = JoinOutcome(schema, Acc[1].collection, Acc[1].clause)
    /\ (pc = "done" /\ result = Valid)
          => \A i \in DOMAIN Acc :
                Acc[i].kind = "reference"
                   => /\ schema \in Registered
                      /\ Acc[i].collection \in Registered
                      /\ DeclaresReferenceTo(Acc[i].collection, schema)
                      /\ Parse(Acc[i].clause, Collections[Acc[i].collection]) = Valid

\* A join validated against users whose clause is Invalid against posts.
C5_Witness ==
    /\ Tokenized /\ Len(Acc) = 1 /\ Acc[1].kind = "reference"
    /\ schema = "users" /\ Acc[1].collection = "posts"
    /\ result = Wrapped("posts", "Invalid start token: " \o BT \o ":=" \o BT)

\* The validator reaches the join at position i: no token checked before
\* it is in error (the first token is checked last).
ReachesJoin(i) ==
    /\ ValidStarts(Acc[1])
    /\ Len(Acc) > 1 =>
          \A j \in 2..(IF i = 1 THEN Len(Acc) ELSE i - 1) :
              IsNextTokenValid(Acc[j], Collections[schema], After(j)) = Valid

InvalidClause(B, clause) ==
    Parse(clause, Collections[B]) \notin {Valid, TooDeep}

\* C6: when the validator reaches a join $B(clause) whose clause is Invalid
\* against B, the result is the prefix naming B followed by exactly the
\* message of the clause; a clause that is itself a join with an Invalid
\* clause gives two prefixes, the outer collection first.
C6_JoinErrorWrapped ==
    Tokenized =>
        \A i \in DOMAIN Acc :
            (/\ Acc[i].kind = "reference"
             /\ schema \in Registered
             /\ Acc[i].collection \in Registered
             /\ DeclaresReferenceTo(Acc[i].collection, schema)
             /\ InvalidClause(Acc[i].collection, Acc[i].clause)
             /\ ReachesJoin(i))
            => LET B == Acc[i].collection
                   inner == Tokenizer(Acc[i].clause, Collections[B], <<>>)
               IN  /\ result = Wrapped(B, Parse(Acc[i].clause, Collections[B]))
                   /\ (/\ inner.err = ""
                       /\ Len(inner.tokens) = 1
                       /\ inner.tokens[1].kind = "reference"
                       /\ inner.tokens[1].collection \in Registered
                       /\ DeclaresReferenceTo(inner.tokens[1].collection, B)
                       /\ InvalidClause(inner.tokens[1].collection,
                                        inner.tokens[1].clause))
                      => result =
                           Wrapped(B,
                             Wrapped(inner.tokens[1].collection,
                               Parse(inner.tokens[1].clause,
                                     Collections[inner.tokens[1].collection])))

\* An error two joins deep: $posts($comments(:=x)) validated against users.
C6_Witness ==
    /\ Tokenized /\ Len(Acc) = 1 /\ Acc[1].kind = "reference"
    /\ result = Wrapped("posts", Wrapped("comments",
                    "Invalid start token: " \o BT \o ":=" \o BT))

\* C7: a scanned expression in which `&&` or `||` is followed by `(`, an
\* identifier or a join is not rejected for that pair of tokens; one in
\* which it is followed by another token or by the end is not Valid.
C7_CombinatorNext ==
    Tokenized =>
        \A i \in DOMAIN Acc :
            IsSym(Acc[i], {"&&", "||"}) =>
                IF Class(First(After(i))) \in {"(", "Ident", "ReferenceToken"}
                THEN result # "Invalid token sequence: " \o BT \o Acc[i].value \o BT
                                \o " followed by " \o GetTokenType(First(After(i)))
                ELSE result # Valid

\* C8 as stated: in a Valid expression every `)` and `]` is the last token
\* or is followed by `&&` or `||`.
C8_ClosingThenCombinator ==
    (pc = "done" /\ result = Valid) =>
        \A i \in DOMAIN Acc :
            IsSym(Acc[i], {")", "]"}) =>
                i = Len(Acc) \/ IsSym(Acc[i + 1], {"&&", "||"})

\* C8 amended: in a Valid expression every `)` and `]` is the last token
\* or is followed by `)`, `&&` or `||`.
C8_ClosingThenCombinatorOrParen ==
    (pc = "done" /\ result = Valid) =>
        \A i \in DOMAIN Acc :
            IsSym(Acc[i], {")", "]"}) =>
                i = Len(Acc) \/ IsSym(Acc[i + 1], {")", "&&", "||"})

\* A Valid expression in which a closing token is followed by `)`.
C8_Witness ==
    /\ pc = "done" /\ result = Valid
    /\ \E i \in 1..(Len(Acc) - 1) :
          IsSym(Acc[i], {")", "]"}) /\ IsSym(Acc[i + 1], {")"})

\* No token starts at the head of s: it is not a space, an identifier
\* character or a digit, opens no backtick literal or join reference, and
\* no key of TokenMap is a prefix of s.
StartsNoToken(s) ==
    /\ s # EOF
    /\ Head(s) \notin {" "} \cup Char \cup Digit
    /\ ~IsEscaped(s)
    /\ ~(Head(s) = "$" /\ IndexFrom(s, "(", 2) # 0)
    /\ Head(s) \notin TokenMap1
    /\ ~(Len(s) >= 2 /\ Str(Take(s, 2)) \in TokenMap2)
    /\ ~(Len(s) >= 3 /\ Str(Take(s, 3)) \in TokenMap3)

\* C9: when no token starts at the head of the remaining input, the scan
\* stops and the result is `Unknown token: ` followed by that character.
C9_UnknownCharReported ==
    [][(pc = "scan" /\ StartsNoToken(T))
         => (pc' = "done" /\ result' = "Unknown token: " \o Head(T))]_vars

\* The number of digits of s from position from on.
RECURSIVE DigitRun(_, _)
DigitRun(s, from) ==
    IF from <= Len(s) /\ s[from] \in Digit THEN 1 + DigitRun(s, from + 1) ELSE 0

\* The length of the numeral at the head of s: an optional `-`, digits, and
\* optionally `.` followed by digits; 0 if there is none.
NumeralLen(s) ==
    LET sign == IF s # <<>> /\ Head(s) = "-" THEN 1 ELSE 0
        int == DigitRun(s, sign + 1)
        frac == IF sign + int + 1 <= Len(s) /\ s[sign + int + 1] = "."
                THEN DigitRun(s, sign + int + 2) ELSE 0
    IN  IF int = 0 THEN 0
        ELSE IF frac = 0 THEN sign + int ELSE sign + int + 1 + frac

\* A numeral stands at the head of s and is not continued by an identifier
\* character.
AtNumeral(s) ==
    /\ NumeralLen(s) > 0
    /\ NumeralLen(s) < Len(s) => s[NumeralLen(s) + 1] \notin Char \cup Digit

\* C10: with a numeral at the head of the remaining input, the Tokenizer
\* appends a number token holding the text of the numeral, sign included.
C10_NumeralIsNumToken ==
    [][(pc = "scan" /\ AtNumeral(T))
         => /\ Acc' = Append(Acc, NumToken(Take(T, NumeralLen(T))))
            /\ T' = Drop(T, NumeralLen(T))]_vars

\* The position in s, from position i on, of the `)` that closes a join
\* clause when backtick literals are passed over as a whole; 0 if none.
RECURSIVE ClauseEnd(_, _, _)
ClauseEnd(s, i, depth) ==
    IF i > Len(s) THEN 0
    ELSE IF s[i] = BT /\ IndexFrom(s, BT, i + 1) # 0
    THEN ClauseEnd(s, IndexFrom(s, BT, i + 1) + 1, depth)
    ELSE IF s[i] = "("
    THEN ClauseEnd(s, i + 1, depth + 1)
    ELSE IF s[i] = ")"
    THEN IF depth = 0 THEN i ELSE ClauseEnd(s, i + 1, depth - 1)
    ELSE ClauseEnd(s, i + 1, depth)

\* C11: a backtick at the head of the remaining input with a later backtick
\* is read as the literal between the two; without a later backtick nothing
\* is consumed and the result is `Unknown token`; and the clause of a join
\* ends at the `)` that closes it outside its backtick literals.
C11_LiteralVerbatim ==
    [][(pc = "scan" /\ T # EOF) =>
         /\ (Head(T) = BT /\ IndexFrom(T, BT, 2) # 0)
               => /\ Acc' = Append(Acc,
                              LiteralToken(SubSeq(T, 2, IndexFrom(T, BT, 2) - 1)))
                  /\ T' = Drop(T, IndexFrom(T, BT, 2))
         /\ (Head(T) = BT /\ IndexFrom(T, BT, 2) = 0)
               => /\ T' = T
                  /\ pc' = "done"
                  /\ result' = "Unknown token: " \o BT
         /\ (/\ Head(T) = "$"
             /\ IndexFrom(T, "(", 2) # 0
             /\ ClauseEnd(T, IndexFrom(T, "(", 2) + 1, 0) # 0)
               => LET j == IndexFrom(T, "(", 2)
                      k == ClauseEnd(T, j + 1, 0)
                  IN  /\ Acc' = Append(Acc,
                                   ReferenceToken(Str(SubSeq(T, 2, j - 1)),
                                                  SubSeq(T, j + 1, k - 1)))
                      /\ T' = Drop(T, k)]_vars

\* C11 outside join clauses: the first two conjuncts alone.
C11_TopLevelLiteral ==
    [][(pc = "scan" /\ T # EOF) =>
         /\ (Head(T) = BT /\ IndexFrom(T, BT, 2) # 0)
               => /\ Acc' = Append(Acc,
                              LiteralToken(SubSeq(T, 2, IndexFrom(T, BT, 2) - 1)))
                  /\ T' = Drop(T, IndexFrom(T, BT, 2))
         /\ (Head(T) = BT /\ IndexFrom(T, BT, 2) = 0)
               => /\ T' = T
                  /\ pc' = "done"
                  /\ result' = "Unknown token: " \o BT]_vars

\* The longest prefix of s made of identifier characters and digits.
RECURSIVE Word(_)
Word(s) ==
    IF s # <<>> /\ Head(s) \in Char \cup Digit
    THEN <<Head(s)>> \o Word(Tail(s))
    ELSE <<>>

ComparisonOperators == {":=", ":!=", ":", ":<", ":>", ":<=", ":>="}

\* C12: a name at the head of the expression that is no field of the schema
\* is scanned as a literal token; an expression in which a literal is
\* followed by a comparison operator or by `:[` is Invalid.
C12_UnknownFieldRejected ==
    /\ (/\ input # <<>>
        /\ Head(input) \in Char
        /\ Str(Word(input)) \notin FieldNames(Collections[schema])
        /\ T # input)
          => Acc # <<>> /\ Acc[1] = LiteralToken(Word(input))
    /\ Tokenized =>
          \A i \in 1..(Len(Acc) - 1) :
              (/\ Acc[i].kind = "literal"
               /\ IsSym(Acc[i + 1], ComparisonOperators \cup {":["}))
                => result \notin {Valid, TooDeep}

\* `ok:=x` validated against users, which has no field ok.
C12_Witness ==
    /\ Tokenized /\ schema = "users" /\ Len(Acc) = 3
    /\ Acc[1] = LiteralToken(<<"o", "k">>)
    /\ IsSym(Acc[2], {":="})
    /\ result = "Invalid token sequence: Literal Token " \o BT \o "ok" \o BT
                   \o " followed by " \o BT \o ":=" \o BT

-----------------------------------------------------------------------------
(* Eval grammar (lexer/eval)                                               *)

FilterClause(c, i) == [kind |-> "filter", clause |-> c, in_range |-> i]

Whitespace == " "

\* Index of the first occurrence of the text sub in s at or after from; 0
\* if none.
IndexOfText(s, sub, from) ==
    LET at(i) == i + Len(sub) - 1 <= Len(s) /\ SubSeq(s, i, i + Len(sub) - 1) = sub
    IN  IF \E i \in from..Len(s) : at(i)
        THEN CHOOSE i \in from..Len(s) : at(i) /\ \A j \in from..(i - 1) : ~at(j)
        ELSE 0

\* TrimLeft<T>: leading spaces are dropped; then the space of the first
\* `) :` is dropped.
RECURSIVE TrimLeft(_)
TrimLeft(s) ==
    IF s # <<>> /\ Head(s) = Whitespace THEN TrimLeft(Tail(s))
    ELSE LET p == IndexOfText(s, <<")", Whitespace, ":">>, 1)
         IN  IF p # 0 THEN Take(s, p) \o Drop(s, p + 1) ELSE s

\* ReadToken<T> of the eval grammar; NoToken stands for [EOF, T].
RECURSIVE EvalReadToken(_)
EvalReadToken(s) ==
    IF s = <<>> THEN <<NoToken, s>>
    ELSE IF Head(s) \in {"[", "]", ":", ","} THEN <<Sym(Head(s)), Tail(s)>>
    ELSE IF Head(s) = "(" /\ IndexOfText(s, <<")", ":">>, 2) # 0
    THEN LET p == IndexOfText(s, <<")", ":">>, 2)
         IN  <<FilterClause(SubSeq(s, 2, p - 1), TRUE), Drop(s, p + 1)>>
    ELSE IF Head(s) \in Digit
    THEN LET r == ReadNum(s, <<>>, s, FALSE, FALSE)
         IN  <<NumToken(r[1]), r[2]>>
    ELSE IF Head(s) = Whitespace THEN EvalReadToken(Tail(s))
    ELSE <<FilterClause(s, FALSE), EOF>>

\* Tokenizer<T, Acc> of the eval grammar.
RECURSIVE EvalTokenizer(_, _)
EvalTokenizer(s, acc) ==
    IF s = EOF THEN acc
    ELSE IF Head(s) = Whitespace THEN EvalTokenizer(Tail(s), acc)
    ELSE LET r == EvalReadToken(TrimLeft(s))
         IN  IF r[1] = NoToken THEN acc
             ELSE IF r[2] = EOF THEN Append(acc, r[1])
             ELSE EvalTokenizer(r[2], Append(acc, r[1]))

\* GetTokenType<T> of the eval grammar
EvalGetTokenType(t) ==
    CASE t.kind = "filter" -> "filter clause"
      [] t.kind = "int" -> "number"
      [] IsSym(t, {"[", "]", ":", ","}) -> BT \o t.value \o BT
      [] OTHER -> "unknown token"

\* The message of the clause without the prefix of the eval grammar.
FilterErrorUnprefixed(inner) == inner

\* The template `[Error on filter]: ${Result}`
FilterError(inner) == "[Error on filter]: " \o inner

\* The verdict on a filter clause: inner is ParseFilter<Clause, Schema>.
FilterVerdict(inner) ==
    IF inner = Valid THEN Valid
    ELSE IF inner = TooDeep THEN TooDeep
    ELSE FilterError(inner)

\* IsValidFilterClause<Clause, Schema, TNext, InRange>
IsValidFilterClause(Clause, Schema, TNext, InRange) ==
    IF InRange /\ First(TNext).kind # "int"
    THEN "Invalid token after filter, expected a number"
    ELSE IF ~InRange /\ ~IsEmpty(TNext)
    THEN "Invalid token: a filter must be the only token in _eval"
    ELSE FilterVerdict(Parse(Clause, Schema))

\* IsValidNumber<TNext>
IsValidNumber(TNext) ==
    IF IsSym(First(TNext), {",", "]"}) THEN Valid
    ELSE "Invalid token after number, expected " \o BT \o "," \o BT
           \o " or " \o BT \o "]" \o BT

\* IsValidBracket<Current, TNext>
IsValidBracket(Current, TNext) ==
    IF Current = "["
    THEN IF First(TNext).kind = "filter" /\ First(TNext).in_range THEN Valid
         ELSE "Invalid token after " \o BT \o "[" \o BT \o ", expected filter"
    ELSE IF IsEmpty(TNext) THEN Valid
         ELSE "Invalid token after " \o BT \o "]" \o BT \o ", expected EOF"

\* IsValidOperator<Current, TNext>
IsValidOperator(Current, TNext) ==
    IF Current = ":"
    THEN IF First(TNext).kind = "int" THEN Valid
         ELSE "Invalid token after " \o BT \o ":" \o BT \o ", expected number"
    ELSE IF First(TNext).kind = "filter" /\ First(TNext).in_range THEN Valid
         ELSE "Invalid token after " \o BT \o "," \o BT \o ", expected filter"

\* IsNextTokenValid<Current, Schema, TNext> of the eval grammar
EvalIsNextTokenValid(Current, Schema, TNext) ==
    IF Current.kind = "filter"
    THEN IsValidFilterClause(Current.clause, Schema, TNext, Current.in_range)
    ELSE IF Current.kind = "int" THEN IsValidNumber(TNext)
    ELSE IF IsSym(Current, {"[", "]"}) THEN IsValidBracket(Current.value, TNext)
    ELSE IF IsSym(Current, {":", ","}) THEN IsValidOperator(Current.value, TNext)
    ELSE "Invalid token"

\* IsValidArray<TokenArray, Schema, Acc, FirstTokenProcessed> of the eval
\* grammar
RECURSIVE EvalIsValidArray(_, _, _, _)
EvalIsValidArray(TokenArray, Schema, acc, FirstTokenProcessed) ==
    IF TokenArray # <<>>
    THEN LET H == Head(TokenArray)
             Tl == Tail(TokenArray)
         IN  IF ~FirstTokenProcessed
             THEN IF (H.kind = "filter" /\ ~H.in_range) \/ IsSym(H, {"["})
                  THEN IF IsEmpty(Tl)
                       THEN IF H.kind = "filter"
                            THEN FilterVerdict(Parse(H.clause, Schema))
                            ELSE "Invalid token sequence: " \o EvalGetTokenType(H)
                                   \o " cannot be the only token"
                       ELSE EvalIsValidArray(Tl, Schema, Append(acc, H), TRUE)
                  ELSE "Invalid start token: " \o EvalGetTokenType(H)
             ELSE AndThen(EvalIsNextTokenValid(H, Schema, Tl),
                          EvalIsValidArray(Tl, Schema, Append(acc, H), TRUE))
    ELSE IF ~IsEmpty(acc)
         THEN EvalIsNextTokenValid(acc[1], Schema, Tail(acc))
         ELSE Valid

\* CheckSquareBrackets<TokenArray> of the eval grammar
EvalCheckSquareBrackets(TokenArray) == CheckBalancedTokens(TokenArray, "[", "]", 0)

\* The part of Parse (eval) that follows the Tokenizer.
ParseEvalTokens(Tokens, Schema) ==
    AndThen(EvalIsValidArray(Tokens, Schema, <<>>, FALSE),
            IF EvalCheckSquareBrackets(Tokens) THEN Valid
            ELSE "Square brackets are not balanced")

\* Parse<T, Schema> of the eval grammar, exported as ParseEval.
ParseEval(s, Schema) == ParseEvalTokens(EvalTokenizer(s, <<>>), Schema)

-----------------------------------------------------------------------------
(* Sort grammar (lexer/sort)                                               *)

EvalToken(c) == [kind |-> "eval", clause |-> c]
ConfigToken(k, v) == [kind |-> "config", key |-> k, value |-> v]

\* type SortableTypes
SortableTypes == {"int32", "float", "int64"}

\* SortableFields<ExtractFields<Schema>>
SortableFields(Schema) ==
    {Schema.fields[i].name : i \in
        {j \in DOMAIN Schema.fields :
            \/ Schema.fields[j].sort = "true"
            \/ /\ Schema.fields[j].type \in SortableTypes
               /\ Schema.fields[j].sort # "false"}}

StartsWith(s, pre) == Len(s) >= Len(pre) /\ Take(s, Len(pre)) = pre

\* ExtractBalancedParenthesesAndTrim<S, "(", ")", Acc, Stack, LeftTrimmed>;
\* the stack only holds `(`, so its depth stands for it.
RECURSIVE ExtractBalancedParenthesesAndTrim(_, _, _, _)
ExtractBalancedParenthesesAndTrim(S, acc, Stack, LeftTrimmed) ==
    IF S = <<>> THEN (IF Stack = 0 THEN <<acc, EOF>> ELSE <<EOF, EOF>>)
    ELSE IF ~LeftTrimmed
    THEN IF Head(S) = "("
         THEN ExtractBalancedParenthesesAndTrim(Tail(S), <<>>, 1, TRUE)
         ELSE <<S, EOF>>
    ELSE IF Head(S) = "("
    THEN ExtractBalancedParenthesesAndTrim(Tail(S), Append(acc, "("), Stack + 1, TRUE)
    ELSE IF Head(S) = ")"
    THEN IF Stack = 0 THEN <<EOF, EOF>>
         ELSE IF Stack = 1 THEN <<acc, Tail(S)>>
         ELSE ExtractBalancedParenthesesAndTrim(Tail(S), Append(acc, ")"), Stack - 1, TRUE)
    ELSE IF Stack = 0 THEN <<acc, S>>
    ELSE ExtractBalancedParenthesesAndTrim(Tail(S), Append(acc, Head(S)), Stack, TRUE)

\* ReadToken<T> of the sort grammar: the tokens read (one to three) and the
\* rest; no tokens stands for [T, EOF].
SortReadToken(s) ==
    IF s = <<>> THEN [toks |-> <<>>, rest |-> EOF]
    ELSE IF Head(s) \in {":", ","} THEN [toks |-> <<Sym(Head(s))>>, rest |-> Tail(s)]
    ELSE IF StartsWith(s, <<"_", "e", "v", "a", "l">>)
    THEN LET r == ExtractBalancedParenthesesAndTrim(Drop(s, 5), <<>>, 0, FALSE)
         IN  IF StartsWith(r[2], <<":", "d", "e", "s", "c">>)
             THEN [toks |-> <<EvalToken(r[1]), Sym(":"), Sym("desc")>>,
                   rest |-> Drop(r[2], 5)]
             ELSE [toks |-> <<EvalToken(r[1])>>, rest |-> r[2]]
    ELSE IF /\ IndexFrom(s, "(", 1) # 0
            /\ IndexFrom(s, ":", IndexFrom(s, "(", 1) + 1) # 0
            /\ IndexFrom(s, ")", IndexFrom(s, ":", IndexFrom(s, "(", 1) + 1) + 1) # 0
    THEN LET a == IndexFrom(s, "(", 1)
             b == IndexFrom(s, ":", a + 1)
             c == IndexFrom(s, ")", b + 1)
         IN  [toks |-> <<Ident(Str(Take(s, a - 1)), "FieldType"),
                         ConfigToken(Str(SubSeq(s, a + 1, b - 1)),
                                     Str(SubSeq(s, b + 1, c - 1)))>>,
              rest |-> Drop(s, c)]
    ELSE IF StartsWith(s, <<"a", "s", "c">>)
    THEN [toks |-> <<Sym("asc")>>, rest |-> Drop(s, 3)]
    ELSE IF StartsWith(s, <<"d", "e", "s", "c">>)
    THEN [toks |-> <<Sym("desc")>>, rest |-> Drop(s, 4)]
    ELSE LET r == ReadString(s, <<>>, s, FALSE)
         IN  [toks |-> <<Ident(Str(r[1]), "FieldType")>>, rest |-> r[2]]

\* One unfolding of Tokenizer<T, Acc> (sort) on a non-empty T.
SortTokenizerStep(s) ==
    IF Head(s) = Whitespace THEN [toks |-> <<>>, rest |-> Tail(s)]
    ELSE SortReadToken(s)

\* Tokenizer<T, Acc> of the sort grammar.  An unfolding that leaves T as it
\* is recurses forever.
RECURSIVE SortTokenizer(_, _)
SortTokenizer(s, acc) ==
    IF s = EOF THEN [tokens |-> acc, err |-> ""]
    ELSE LET st == SortTokenizerStep(s)
         IN  IF st.rest = s THEN [tokens |-> <<>>, err |-> TooDeep]
             ELSE SortTokenizer(st.rest, acc \o st.toks)

\* IsValidIdentifier with the string fields sortable unless marked sort:false.
SortIsValidIdentifierWithStrings(TCurrent, Schema, TNext) ==
    IF TCurrent.name \in
          {Schema.fields[i].name : i \in
              {j \in DOMAIN Schema.fields :
                  \/ Schema.fields[j].sort = "true"
                  \/ /\ Schema.fields[j].type \in SortableTypes \cup {"string"}
                     /\ Schema.fields[j].sort # "false"}}
          \cup {"_text_match_score"}
    THEN IF IsSym(First(TNext), {":"})
            \/ (/\ First(TNext).kind = "config"
                /\ First(TNext).key = "missing_values"
                /\ First(TNext).value \in {"first", "last"})
         THEN Valid
         ELSE IF First(TNext).kind = "config"
         THEN "Invalid token sequence: configuration (" \o BT \o First(TNext).key
                \o ": " \o First(TNext).value \o BT \o ") isn't valid."
         ELSE "Invalid token sequence: identifier " \o BT \o TCurrent.name \o BT
                \o " must be followed by " \o BT \o ":" \o BT \o " or a valid "
                \o BT \o "missing_values" \o BT \o " config."
    ELSE IF TCurrent.name \in FieldNames(Schema)
    THEN "Invalid identifier: " \o TCurrent.name \o " is not a sortable field."
    ELSE "Invalid identifier: " \o TCurrent.name
           \o " is not a field of collection " \o Schema.name \o "."

\* IsValidIdentifier with one message for every name that is not sortable.
SortIsValidIdentifierOneMessage(TCurrent, Schema, TNext) ==
    IF TCurrent.name \in SortableFields(Schema) \cup {"_text_match_score"}
    THEN IF IsSym(First(TNext), {":"})
            \/ (/\ First(TNext).kind = "config"
                /\ First(TNext).key = "missing_values"
                /\ First(TNext).value \in {"first", "last"})
         THEN Valid
         ELSE "Invalid token sequence: identifier " \o BT \o TCurrent.name \o BT
                \o " must be followed by " \o BT \o ":" \o BT \o " or a valid "
                \o BT \o "missing_values" \o BT \o " config."
    ELSE "Invalid identifier: " \o TCurrent.name
           \o " is not a field of collection " \o Schema.name \o "."

\* IsValidIdentifier<TCurrent, Schema, TNext> of the sort grammar
SortIsValidIdentifier(TCurrent, Schema, TNext) ==
    IF TCurrent.name \in SortableFields(Schema) \cup {"_text_match_score"}
    THEN IF IsSym(First(TNext), {":"})
            \/ (/\ First(TNext).kind = "config"
                /\ First(TNext).key = "missing_values"
                /\ First(TNext).value \in {"first", "last"})
         THEN Valid
         ELSE IF First(TNext).kind = "config"
         THEN "Invalid token sequence: configuration (" \o BT \o First(TNext).key
                \o ": " \o First(TNext).value \o BT \o ") isn't valid."
         ELSE "Invalid token sequence: identifier " \o BT \o TCurrent.name \o BT
                \o " must be followed by " \o BT \o ":" \o BT \o " or a valid "
                \o BT \o "missing_values" \o BT \o " config."
    ELSE IF TCurrent.name \in FieldNames(Schema)
    THEN "Invalid identifier: " \o TCurrent.name \o " is not a sortable field."
    ELSE "Invalid identifier: " \o TCurrent.name
           \o " is not a field of collection " \o Schema.name \o "."

\* The template `[Error in _eval clause]: ${Result}.`
EvalError(inner) == "[Error in _eval clause]: " \o inner \o "."

\* The verdict on an _eval key: Result is ParseEval<clause, Schema>.
EvalVerdict(Result) ==
    IF Result = Valid THEN Valid
    ELSE IF Result = TooDeep THEN TooDeep
    ELSE EvalError(Result)

\* IsEvalValid<CurrentToken, Schema, Next>
IsEvalValid(CurrentToken, Schema, TNext) ==
    IF IsSym(First(TNext), {":"})
    THEN EvalVerdict(ParseEval(CurrentToken.clause, Schema))
    ELSE "Invalid token sequence: '_eval' must be followed by "
           \o BT \o ":" \o BT \o "."

\* IsValid<Current, Schema, TNext>
SortIsValid(Current, Schema, TNext) ==
    IF Current.kind = "ident" THEN SortIsValidIdentifier(Current, Schema, TNext)
    ELSE IF IsSym(Current, {":"})
    THEN IF IsSym(First(TNext), {"asc", "desc"}) THEN Valid
         ELSE "Invalid token sequence: " \o BT \o ":" \o BT
                \o " must be followed by 'asc' or 'desc'."
    ELSE IF IsSym(Current, {"asc", "desc"})
    THEN IF IsEmpty(TNext) THEN Valid
         ELSE IF IsSym(First(TNext), {","}) THEN Valid
         ELSE "Invalid token sequence: sort direction must be followed by "
                \o BT \o "," \o BT \o " or end of input."
    ELSE IF IsSym(Current, {","})
    THEN IF First(TNext).kind \in {"ident", "eval"} THEN Valid
         ELSE "Invalid token sequence: " \o BT \o "," \o BT
                \o " must be followed by an identifier."
    ELSE IF Current.kind = "eval" THEN IsEvalValid(Current, Schema, TNext)
    ELSE IF Current.kind = "config"
    THEN IF IsSym(First(TNext), {":"}) THEN Valid
         ELSE "Invalid token sequence: config token must be followed by "
                \o BT \o ":" \o BT \o "."
    ELSE "Invalid token."

\* IsValidArray<TokenArray, Schema, Acc> of the sort grammar
RECURSIVE SortIsValidArray(_, _, _)
SortIsValidArray(TokenArray, Schema, acc) ==
    IF TokenArray # <<>>
    THEN AndThen(SortIsValid(Head(TokenArray), Schema, Tail(TokenArray)),
                 SortIsValidArray(Tail(TokenArray), Schema,
                                  Append(acc, Head(TokenArray))))
    ELSE IF ~IsEmpty(acc)
         THEN SortIsValid(acc[1], Schema, Tail(acc))
         ELSE Valid

\* The verdict of Parse (sort): v is IsValidArray<Result, Schema>.
SortVerdict(v) ==
    IF v = Valid THEN Valid
    ELSE IF v = TooDeep THEN TooDeep
    ELSE "Invalid token sequence: " \o v

\* The part of Parse (sort) that follows the Tokenizer.
SortParseTokens(Tokens, Schema) ==
    SortVerdict(SortIsValidArray(Tokens, Schema, <<>>))

\* Parse<T, Schema> of the sort grammar, exported as SortParse.
SortParse(s, Schema) ==
    LET tk == SortTokenizer(s, <<>>)
    IN  IF tk.err # "" THEN tk.err ELSE SortParseTokens(tk.tokens, Schema)

-----------------------------------------------------------------------------
(* ParseEval as a state machine                                            *)

\* Pieces of eval expressions: [ ] , the space, the weight 3, the pair
\* (age:>5): up to its weight, and the bare filters age:>5 and zz:=1.
V_open == <<"[">>
V_close == <<"]">>
V_comma == <<",">>
V_sp == <<" ">>
V_3 == <<"3">>
V_pair == <<"(", "a", "g", "e", ":", ">", "5", ")", ":">>
V_bare == <<"a", "g", "e", ":", ">", "5">>
V_bareBad == <<"z", "z", ":", "=", "1">>

EvalVocabulary ==
    {V_open, V_close, V_comma, V_sp, V_3, V_pair, V_bare, V_bareBad}

\* Beginnings: a list of one pair, of two pairs, of two pairs the second
\* with an unknown field, and a closed list.
E_one == <<"[", "(", "a", "g", "e", ":", ">", "5", ")", ":", "3">>
E_two == <<"[", "(", "a", "g", "e", ":", ">", "5", ")", ":", "3", ",", "(", "a", "g", "e", ":", ">", "5", ")", ":", "3">>
E_mixed == <<"[", "(", "a", "g", "e", ":", ">", "5", ")", ":", "3", ",", "(", "z", "z", ":", "=", "1", ")", ":", "3">>
E_closed == <<"[", "(", "a", "g", "e", ":", ">", "5", ")", ":", "3", "]">>

EvalPrefixes == {<<>>, E_one, E_two, E_mixed, E_closed}

\* The number of pieces appended to a beginning.
MaxEvalPieces == 3

EvalTails[n \in 0..MaxEvalPieces] ==
    IF n = 0 THEN {<<>>}
    ELSE EvalTails[n - 1] \cup {t \o v : t \in EvalTails[n - 1], v \in EvalVocabulary}

EvalInputs == {p \o t : p \in EvalPrefixes, t \in EvalTails[MaxEvalPieces]}

EvalInit ==
    /\ schema = "users"
    /\ input \in EvalInputs
    /\ T = input
    /\ Acc = <<>>
    /\ pc = "scan"
    /\ result = "none"
    /\ HttpIdle

\* Tokenizer (eval): T extends `${Whitespace}${infer Rest}`
EvalSkip ==
    /\ pc = "scan"
    /\ T # EOF
    /\ Head(T) = Whitespace
    /\ T' = Tail(T)
    /\ UNCHANGED <<schema, input, Acc, pc, result>>
    /\ UNCHANGED http

\* Tokenizer (eval): ReadToken<TrimLeft<T>> is a token and the rest.
EvalScan ==
    /\ pc = "scan"
    /\ T # EOF
    /\ Head(T) # Whitespace
    /\ EvalReadToken(TrimLeft(T))[1] # NoToken
    /\ Acc' = Append(Acc, EvalReadToken(TrimLeft(T))[1])
    /\ T' = EvalReadToken(TrimLeft(T))[2]
    /\ UNCHANGED <<schema, input, pc, result>>
    /\ UNCHANGED http

\* Tokenizer (eval) resolves to Acc; Parse validates the tokens.
EvalValidate ==
    /\ pc = "scan"
    /\ \/ T = EOF
       \/ /\ T # EOF
          /\ Head(T) # Whitespace
          /\ EvalReadToken(TrimLeft(T))[1] = NoToken
    /\ result' = ParseEvalTokens(Acc, Collections[schema])
    /\ pc' = "done"
    /\ UNCHANGED <<schema, input, T, Acc>>
    /\ UNCHANGED http

EvalNext == EvalSkip \/ EvalScan \/ EvalValidate

SpecEval == EvalInit /\ [][EvalNext]_vars

\* The stepwise Tokenizer and the recursive one agree.
EvalResultIsParse ==
    pc = "done" => result = ParseEval(input, Collections[schema])

-----------------------------------------------------------------------------
(* Properties of the eval grammar                                          *)

\* The filter of an eval token is accepted by the filter grammar.
FilterAccepted(t) ==
    t.kind = "filter" /\ Parse(t.clause, Collections[schema]) = Valid

\* (a) a bare filter clause that is the only token.
BareFilter ==
    /\ Len(Acc) = 1
    /\ Acc[1].kind = "filter"
    /\ ~Acc[1].in_range
    /\ FilterAccepted(Acc[1])

\* (b) `[`, pairs of a filter and a number separated by `,`, then `]`.
WeightedList ==
    /\ Len(Acc) >= 4
    /\ Len(Acc) % 3 = 1
    /\ IsSym(Acc[1], {"["})
    /\ IsSym(Acc[Len(Acc)], {"]"})
    /\ \A k \in 0..((Len(Acc) - 4) \div 3) :
          /\ Acc[2 + 3 * k].kind = "filter"
          /\ Acc[2 + 3 * k].in_range
          /\ FilterAccepted(Acc[2 + 3 * k])
          /\ Acc[3 + 3 * k].kind = "int"
          /\ 4 + 3 * k < Len(Acc) => IsSym(Acc[4 + 3 * k], {","})

\* C16: an eval expression is Valid exactly when it is a single Valid bare
\* filter clause or a bracketed list of one or more (filter):number pairs
\* separated by commas with every filter Valid.
C16_ValidExactlyGrammar ==
    Tokenized => (result = Valid <=> (BareFilter \/ WeightedList))

\* The same for expressions with at least one token.
C16_NonEmptyExactlyGrammar ==
    (Tokenized /\ Acc # <<>>) => (result = Valid <=> (BareFilter \/ WeightedList))

\* Every Valid expression with at least one token has as many `[` as `]`.
C16_BalancedBrackets ==
    (Tokenized /\ Acc # <<>> /\ result = Valid) =>
        Cardinality({i \in DOMAIN Acc : IsSym(Acc[i], {"["})})
            = Cardinality({i \in DOMAIN Acc : IsSym(Acc[i], {"]"})})

\* The token list has the form of (a) or (b), whatever its filters are.
EvalForm ==
    \/ /\ Len(Acc) = 1
       /\ Acc[1].kind = "filter"
       /\ ~Acc[1].in_range
    \/ /\ Len(Acc) >= 4
       /\ Len(Acc) % 3 = 1
       /\ IsSym(Acc[1], {"["})
       /\ IsSym(Acc[Len(Acc)], {"]"})
       /\ \A k \in 0..((Len(Acc) - 4) \div 3) :
             /\ Acc[2 + 3 * k].kind = "filter"
             /\ Acc[2 + 3 * k].in_range
             /\ Acc[3 + 3 * k].kind = "int"
             /\ 4 + 3 * k < Len(Acc) => IsSym(Acc[4 + 3 * k], {","})

\* The filter clauses of the expression that the filter grammar rejects.
RejectedFilters ==
    {i \in DOMAIN Acc : Acc[i].kind = "filter" /\ ~FilterAccepted(Acc[i])}

\* The expression as the clause of the only key of a sort expression.
AsEvalKey(e) == <<"_", "e", "v", "a", "l", "(">> \o e \o <<")", ":", "d", "e", "s", "c">>

\* The verdict of the filter grammar on the first rejected clause.
FirstRejection ==
    LET i == CHOOSE j \in RejectedFilters : \A k \in RejectedFilters : j <= k
    IN  Parse(Acc[i].clause, Collections[schema])

\* C17: in an eval expression of the grammar every filter clause is judged
\* by the filter grammar against the same schema: the expression is Valid
\* exactly when Parse accepts every clause, and the message of the first
\* rejected clause is returned after `[Error on filter]: `. The key
\* _eval(expression):desc of a sort expression is Valid exactly when the
\* eval grammar accepts the expression, and its message is returned after
\* `[Error in _eval clause]: ` inside the report of the sort grammar.
C17_Delegation ==
    /\ (Tokenized /\ EvalForm) =>
          /\ result = Valid <=> RejectedFilters = {}
          /\ (RejectedFilters # {} /\ FirstRejection # TooDeep) =>
                result = "[Error on filter]: " \o FirstRejection
    /\ (Tokenized /\ result # TooDeep) =>
          SortParse(AsEvalKey(input), Collections[schema]) =
              IF result = Valid THEN Valid
              ELSE "Invalid token sequence: [Error in _eval clause]: "
                       \o result \o "."

\* The list [(age:>5):3,(zz:=1):3] against users: the second filter is
\* rejected by the filter grammar and its message is returned.
C17_Witness ==
    /\ Tokenized
    /\ EvalForm
    /\ Len(Acc) = 7
    /\ RejectedFilters = {5}
    /\ result = "[Error on filter]: " \o Parse(Acc[5].clause, Collections[schema])
    /\ SortParse(AsEvalKey(input), Collections[schema]) =
          "Invalid token sequence: [Error in _eval clause]: " \o result \o "."

-----------------------------------------------------------------------------
(* Parse (sort) as a state machine                                         *)

\* Names used as sort keys: the fields of users and of items, the name zz
\* of no field, and the pseudo-field _text_match_score.
UsersNames ==
    {<<"i", "d">>,
    <<"n", "a", "m", "e">>,
    <<"a", "g", "e">>,
    <<"e", "m", "a", "i", "l">>,
    <<"z", "z">>,
    <<"_", "t", "e", "x", "t", "_", "m", "a", "t", "c", "h", "_", "s", "c", "o", "r", "e">>}

ItemsNames ==
    {<<"i", "d">>,
    <<"o", "k">>,
    <<"q", "t", "y">>,
    <<"p", "r", "i", "c", "e">>,
    <<"s", "i", "z", "e", "s">>,
    <<"h", "i", "t", "s">>,
    <<"l", "a", "b", "e", "l">>,
    <<"m", "e", "m", "o">>,
    <<"p", "i", "n">>,
    <<"z", "z">>,
    <<"_", "t", "e", "x", "t", "_", "m", "a", "t", "c", "h", "_", "s", "c", "o", "r", "e">>}

Directions == {<<":", "a", "s", "c">>, <<":", "d", "e", "s", "c">>}

\* Keys of the grammar, valid against users.
K_asc == <<"a", "g", "e", ":", "a", "s", "c">>
K_score == <<"_", "t", "e", "x", "t", "_", "m", "a", "t", "c", "h", "_", "s", "c", "o", "r", "e", ":", "d", "e", "s", "c">>
K_first == <<"a", "g", "e", "(", "m", "i", "s", "s", "i", "n", "g", "_", "v", "a", "l", "u", "e", "s", ":", "f", "i", "r", "s", "t", ")", ":", "a", "s", "c">>
K_last == <<"a", "g", "e", "(", "m", "i", "s", "s", "i", "n", "g", "_", "v", "a", "l", "u", "e", "s", ":", "l", "a", "s", "t", ")", ":", "d", "e", "s", "c">>
K_eval == <<"_", "e", "v", "a", "l", "(", "a", "g", "e", ":", ">", "5", ")", ":", "d", "e", "s", "c">>
K_evalAsc == <<"_", "e", "v", "a", "l", "(", "[", "(", "a", "g", "e", ":", ">", "5", ")", ":", "3", "]", ")", ":", "a", "s", "c">>

ValidKeys == {K_asc, K_score, K_first, K_last, K_eval, K_evalAsc}

\* Other keys: a field that is not sortable, no field, a configuration
\* other than missing_values, an _eval whose filter is rejected, a key
\* without direction, a direction that is none, a number, and spaces.
K_email == <<"e", "m", "a", "i", "l", ":", "d", "e", "s", "c">>
K_zz == <<"z", "z", ":", "a", "s", "c">>
K_config == <<"a", "g", "e", "(", "f", "o", "o", ":", "b", "a", "r", ")", ":", "a", "s", "c">>
K_evalBad == <<"_", "e", "v", "a", "l", "(", "z", "z", ":", "=", "1", ")", ":", "d", "e", "s", "c">>
K_noDir == <<"a", "g", "e">>
K_up == <<"a", "g", "e", ":", "u", "p">>
K_num == <<"5", ":", "a", "s", "c">>
K_spaced == <<" ", "a", "g", "e", " ", ":", " ", "d", "e", "s", "c">>

OtherKeys == {K_email, K_zz, K_config, K_evalBad, K_noDir, K_up, K_num, K_spaced}

\* The number of keys of a list.
MaxKeys == 2

\* Lists of n keys taken from ks and separated by commas.
KeyLists[n \in 1..MaxKeys] ==
    [ks \in {ValidKeys, ValidKeys \cup OtherKeys} |->
        IF n = 1 THEN ks
        ELSE {l \o <<",">> \o k : l \in KeyLists[n - 1][ks], k \in ks}]

SortLists(ks) == UNION {KeyLists[n][ks] : n \in 1..MaxKeys}

\* Expressions with a direction that belongs to no key: a direction with
\* and without its colon, alone and after a key, and a comma at the start.
Keyless ==
    {<<":", "a", "s", "c">>, <<"a", "s", "c">>, <<"d", "e", "s", "c">>,
     <<",">> \o K_asc, K_asc \o <<",", ":", "d", "e", "s", "c">>,
     K_asc \o <<",", "d", "e", "s", "c">>}

\* The sortable fields of notes.
NotesNames ==
    {<<"d", "e", "s", "c", "r", "i", "p", "t", "i", "o", "n">>,
     <<"a", "s", "c", "e", "n", "t">>,
     <<"r", "a", "n", "k">>}

SortCases ==
    ({"users"} \X ({<<>>} \cup SortLists(ValidKeys \cup OtherKeys)))
        \cup ({"users"} \X {n \o d : n \in UsersNames, d \in Directions})
        \cup ({"items"} \X {n \o d : n \in ItemsNames, d \in Directions})
        \cup ({"users"} \X Keyless)
        \cup ({"notes"} \X {n \o d : n \in NotesNames, d \in Directions})

SortInit ==
    /\ \E c \in SortCases : schema = c[1] /\ input = c[2]
    /\ T = input
    /\ Acc = <<>>
    /\ pc = "scan"
    /\ result = "none"
    /\ HttpIdle

\* Tokenizer (sort): First extends Whitespace
SortSkip ==
    /\ pc = "scan"
    /\ T # EOF
    /\ Head(T) = Whitespace
    /\ T' = Tail(T)
    /\ UNCHANGED <<schema, input, Acc, pc, result>>
    /\ UNCHANGED http

\* Tokenizer (sort): ReadToken<T> is one, two or three tokens and the rest.
SortScan ==
    /\ pc = "scan"
    /\ T # EOF
    /\ Head(T) # Whitespace
    /\ SortReadToken(T).rest # T
    /\ Acc' = Acc \o SortReadToken(T).toks
    /\ T' = SortReadToken(T).rest
    /\ UNCHANGED <<schema, input, pc, result>>
    /\ UNCHANGED http

\* Tokenizer (sort): ReadToken<T> leaves T as it is; the recursion has no
\* end.
SortGiveUp ==
    /\ pc = "scan"
    /\ T # EOF
    /\ Head(T) # Whitespace
    /\ SortReadToken(T).rest = T
    /\ result' = TooDeep
    /\ pc' = "done"
    /\ UNCHANGED <<schema, input, T, Acc>>
    /\ UNCHANGED http

\* Tokenizer (sort) resolves to Acc; Parse validates the tokens.
SortValidate ==
    /\ pc = "scan"
    /\ T = EOF
    /\ result' = SortParseTokens(Acc, Collections[schema])
    /\ pc' = "done"
    /\ UNCHANGED <<schema, input, T, Acc>>
    /\ UNCHANGED http

SortNext == SortSkip \/ SortScan \/ SortGiveUp \/ SortValidate

SpecSort == SortInit /\ [][SortNext]_vars

\* The stepwise Tokenizer and the recursive one agree.
SortResultIsParse ==
    pc = "done" => result = SortParse(input, Collections[schema])

-----------------------------------------------------------------------------
(* Properties of the sort grammar                                          *)

NumericTypes == {"int32", "int64", "float"}

\* The fields of the schema validated against.
SchemaFields == {Collections[schema].fields[i] : i \in DOMAIN Collections[schema].fields}

\* n names the pseudo-field, a field with sort:true, or a field of one of
\* the types that is not marked sort:false.
SortableBy(n, types) ==
    \/ n = "_text_match_score"
    \/ \E f \in SchemaFields :
          /\ f.name = n
          /\ f.sort = "true" \/ (f.type \in types /\ f.sort # "false")

\* The expression is one key: an identifier, `:` and a direction.
OneKey ==
    /\ Tokenized
    /\ Len(Acc) = 3
    /\ Acc[1].kind = "ident"
    /\ IsSym(Acc[2], {":"})
    /\ IsSym(Acc[3], {"asc", "desc"})

\* C13 as stated: an identifier is accepted as a sort key exactly when it
\* names a field with sort:true, a numeric or string field not marked
\* sort:false, or _text_match_score.
C13_NumericOrStringSortable ==
    OneKey => (result = Valid <=> SortableBy(Acc[1].name, NumericTypes \cup {"string"}))

\* C13 amended: an identifier is accepted as a sort key exactly when it
\* names a field with sort:true, a numeric (int32, int64, float) field not
\* marked sort:false, or _text_match_score.
C13_NumericSortable ==
    OneKey => (result = Valid <=> SortableBy(Acc[1].name, NumericTypes))

\* name:asc against users: a string field without sort is rejected.
C13_Witness ==
    /\ OneKey
    /\ schema = "users"
    /\ Acc[1].name = "name"
    /\ result # Valid

\* C14: a sort expression whose first key names a field that is not
\* sortable is Invalid with `<name> is not a sortable field.`; one whose
\* first key names no field of the schema is Invalid with `<name> is not a
\* field of collection <collection>.`.
C14_NotSortableOrNotField ==
    (Tokenized /\ Acc # <<>> /\ Acc[1].kind = "ident") =>
        LET n == Acc[1].name
        IN  /\ ((\E f \in SchemaFields : f.name = n) /\ ~SortableBy(n, NumericTypes)) =>
                  result = "Invalid token sequence: Invalid identifier: " \o n
                               \o " is not a sortable field."
            /\ ((\A f \in SchemaFields : f.name # n) /\ n # "_text_match_score") =>
                  result = "Invalid token sequence: Invalid identifier: " \o n
                               \o " is not a field of collection " \o schema \o "."

\* email:desc against users.
C14_Witness ==
    /\ OneKey
    /\ schema = "users"
    /\ Acc[1].name = "email"
    /\ IsSym(Acc[3], {"desc"})
    /\ result = "Invalid token sequence: Invalid identifier: email is not a sortable field."

\* C15: a comma-separated list of keys each of which is Valid alone is
\* Valid, whatever the position of a key with a configuration or of an
\* _eval key.
C15_ListOfValidKeys ==
    (pc = "done" /\ schema = "users" /\ input \in SortLists(ValidKeys)) =>
        result = Valid

\* Every key of the grammar is Valid as the only key.
C15_SingleValidKey ==
    (pc = "done" /\ schema = "users" /\ input \in ValidKeys) => result = Valid

\* A plain key is Valid after any key of the grammar.
C15_PlainKeyLater ==
    (/\ pc = "done"
     /\ schema = "users"
     /\ \E k \in ValidKeys : input = k \o <<",">> \o K_asc) => result = Valid

-----------------------------------------------------------------------------
(* Nodes, URLs and errors                                                  *)

\* The urls of the nodes of the tests.
NodeUrls ==
    <<"http://node-0.example.com", "http://node-1.example.com",
      "http://node-2.example.com", "http://node-3.example.com">>

\* A node as initializeNodes or a test makes it.
BaseNode(index, isHealthy) ==
    [url |-> NodeUrls[index + 1], isHealthy |-> isHealthy, lastAccessTimestamp |-> 0]

\* The nearest node of a configuration.
NearestNode(isHealthy) ==
    [url |-> "http://nearest.example.com", isHealthy |-> isHealthy, lastAccessTimestamp |-> 0]

\* undefined: the nearestNode of a configuration without one, and an
\* element of nodes that is undefined, null or a hole of the array.
NoNearestNode == [url |-> "", isHealthy |-> FALSE, lastAccessTimestamp |-> 0]

\* nodeDueForHealthcheck(node, healthcheckIntervalSeconds); the clock and
\* lastAccessTimestamp are in milliseconds as Date.now() is.
nodeDueForHealthcheck(n, healthcheckIntervalSeconds, clock) ==
    clock - n.lastAccessTimestamp > healthcheckIntervalSeconds * 1000

\* rotatedIndices.map(...): the first index of the rotation from
\* currentIndex whose element is missing, at which map throws; -1 if every
\* element is a node.
RECURSIVE FirstMissing(_, _, _)
FirstMissing(nodes, currentIndex, i) ==
    IF i >= Len(nodes) THEN -1
    ELSE LET index == (currentIndex + i) % Len(nodes)
         IN  IF nodes[index + 1] = NoNearestNode THEN index
             ELSE FirstMissing(nodes, currentIndex, i + 1)

\* .find(...): the first index of the rotation from currentIndex whose node
\* is healthy or due for a health check; -1 if there is none.
RECURSIVE FindHealthy(_, _, _, _, _)
FindHealthy(nodes, healthcheckIntervalSeconds, clock, currentIndex, i) ==
    IF i >= Len(nodes) THEN -1
    ELSE LET index == (currentIndex + i) % Len(nodes)
         IN  IF \/ nodes[index + 1].isHealthy
                \/ nodeDueForHealthcheck(nodes[index + 1],
                                         healthcheckIntervalSeconds, clock)
             THEN index
             ELSE FindHealthy(nodes, healthcheckIntervalSeconds, clock,
                              currentIndex, i + 1)

\* setNodeHealth(node, isHealthy)
setNodeHealth(n, isHealthy, clock) ==
    [url |-> n.url, isHealthy |-> isHealthy, lastAccessTimestamp |-> clock]

\* What getNextNode throws or returns; err is the message of the Error.
Throws(message) == [err |-> message, node |-> NoNearestNode, nextIndex |-> 0]
Returns(n, nextIndex) == [err |-> "", node |-> n, nextIndex |-> nextIndex]

\* Lines 381-414 of getNextNode: the rotation over the nodes.
Rotation(nodes, healthcheckIntervalSeconds, currentIndex, clock) ==
    LET nextIndex == (currentIndex + 1) % Len(nodes)
        missing == FirstMissing(nodes, currentIndex, 0)
        healthyNode == FindHealthy(nodes, healthcheckIntervalSeconds, clock,
                                   currentIndex, 0)
    IN  IF missing # -1
        THEN Throws("Missing node at index " \o ToString(missing))
        ELSE IF healthyNode # -1
        THEN Returns(nodes[healthyNode + 1], nextIndex)
        ELSE IF nodes[nextIndex + 1] = NoNearestNode
        THEN Throws("Missing node at index " \o ToString(nextIndex))
        ELSE Returns(nodes[nextIndex + 1], nextIndex)

\* getNextNode with the index moved on when the nearest node is returned.
getNextNodeNearestAdvances(nodes, nearestNode, healthcheckIntervalSeconds, currentIndex, clock) ==
    IF Len(nodes) = 0
    THEN Throws("No nodes available")
    ELSE IF /\ nearestNode # NoNearestNode
            /\ \/ nearestNode.isHealthy
               \/ nodeDueForHealthcheck(nearestNode, healthcheckIntervalSeconds, clock)
    THEN Returns(nearestNode, (currentIndex + 1) % Len(nodes))
    ELSE Rotation(nodes, healthcheckIntervalSeconds, currentIndex, clock)

\* getNextNode({nodes, nearestNode, healthcheckIntervalSeconds,
\* currentIndex})
getNextNode(nodes, nearestNode, healthcheckIntervalSeconds, currentIndex, clock) ==
    IF Len(nodes) = 0
    THEN Throws("No nodes available")
    ELSE IF /\ nearestNode # NoNearestNode
            /\ \/ nearestNode.isHealthy
               \/ nodeDueForHealthcheck(nearestNode, healthcheckIntervalSeconds, clock)
    THEN Returns(nearestNode, currentIndex)
    ELSE Rotation(nodes, healthcheckIntervalSeconds, currentIndex, clock)

\* An absent optional argument
Absent == "undefined"

\* constructUrl({baseUrl, params, endpoint}): the parts of the URL text;
\* params without entries are the empty sequence.
constructUrl(baseUrl, params, endpoint) ==
    [base |-> baseUrl,
     path |-> IF endpoint # Absent /\ endpoint # "" THEN endpoint ELSE "",
     query |-> IF Len(params) > 0 THEN params ELSE <<>>]

\* new RequestError(status, message, attempt)
RequestError(status, message, attempt) ==
    [name |-> "RequestError", status |-> status, message |-> message,
     attempt |-> attempt]

\* new Error(message)
Error(message) == [name |-> "Error", message |-> message]

\* What JSON.stringify does with a value: a text, undefined, or a
\* TypeError (a circular structure, a BigInt).
JsonText(text) == [kind |-> "text", text |-> text]
JsonUndefined == [kind |-> "undefined", text |-> ""]
JsonThrows == [kind |-> "throws", text |-> ""]

\* A thrown value: type is its typeof ("null" for null), hasMessage tells whether it has a
\* member `message` that is a string, message is that member, json is
\* what JSON.stringify does with the value and string is String(value).
Thrown(type, hasMessage, message, json, string) ==
    [type |-> type, hasMessage |-> hasMessage, message |-> message,
     json |-> json, string |-> string]

\* new Error(message) and the like as thrown values.
ThrownError(message) ==
    Thrown("object", TRUE, message, JsonText("{}"), "Error: " \o message)

\* null: its typeof is "object".
ThrownNull == Thrown("null", FALSE, "", JsonText("null"), "null")

\* isErrorWithMessage(error)
isErrorWithMessage(error) == error.type = "object" /\ error.hasMessage

\* getErrorMessage with one message for every error.
getErrorMessageGeneric(error) == "Request failed"

\* getErrorMessage(error): toErrorWithMessage(error).message.  A string
\* is its own message; new Error(undefined) has the message "".
getErrorMessage(error) ==
    IF isErrorWithMessage(error) THEN error.message
    ELSE IF error.type = "string" THEN error.string
    ELSE IF error.json.kind = "throws" THEN error.string
    ELSE IF error.json.kind = "undefined" THEN ""
    ELSE error.json.text

\* The promise resolves with the parsed body.
Resolved(value) == [name |-> "resolved", value |-> value]

\* The condition of line 51 with the client errors retried.
BelowServerErrorFrom400(status) == status < 400

\* response.status < 500
BelowServerError(status) == status < 500

\* attemptNum > config.numRetries
RetriesExhausted(attemptNum, numRetries) == attemptNum > numRetries

-----------------------------------------------------------------------------
(* search and makeRequest as a state machine                               *)

\* The number of nodes of a configuration, its numRetries, and the number
\* of calls of setNodeHealth the application makes.
MaxNodes == 2
MaxRetries == 1
MaxHealthCalls == 2

\* The healthcheckIntervalSeconds of the configurations of the tests.
HealthcheckIntervalSeconds == 1

\* The nodes as initializeNodes makes them: handleNodeType makes every
\* node healthy and leaves no element of nodes missing.
NodeLists[n \in 0..MaxNodes] ==
    IF n = 0 THEN <<>> ELSE Append(NodeLists[n - 1], BaseNode(n - 1, TRUE))

NearestNodes == {NoNearestNode, NearestNode(TRUE)}

\* The configurations configure returns.
Configurations ==
    [nodes : {NodeLists[n] : n \in 0..MaxNodes},
     nearestNode : NearestNodes,
     numRetries : 0..MaxRetries,
     retryIntervalSeconds : {0, 1},
     healthcheckIntervalSeconds : {HealthcheckIntervalSeconds}]

\* The configuration of the search tests: one healthy node.
SearchConfigurations ==
    [nodes : {<<BaseNode(0, TRUE)>>},
     nearestNode : {NoNearestNode},
     numRetries : {0, 1},
     retryIntervalSeconds : {0},
     healthcheckIntervalSeconds : {HealthcheckIntervalSeconds}]

\* filter_by and sort_by of the searches: accepted and rejected ones.
F_ok == <<"a", "g", "e", ":", ">", "5">>
F_bad == <<"z", "z", ":", ">", "3", "0">>
S_ok == <<"a", "g", "e", ":", "d", "e", "s", "c">>
S_bad == <<"z", "z", ":", "d", "e", "s", "c">>

\* A call of search; checked is FALSE when the compiler's verdict on the
\* call is suppressed (@ts-expect-error) or the caller is not type-checked.
Searches ==
    [op : {"search"}, name : {"users"}, filter_by : {F_ok, F_bad},
     sort_by : {S_ok, S_bad}, checked : BOOLEAN]

\* A direct call of makeRequest as in the tests.
Posts ==
    [op : {"makeRequest"}, method : {"POST"}, body : {"data"},
     params : {<<"q">>}, endpoint : {Absent, "/collections"}]

\* The responses of a server: status and body; ok is status in 200..299.
Responses ==
    {[status |-> 200, text |-> "{}"], [status |-> 200, text |-> "not json"],
     [status |-> 404, text |-> "Not Found"],
     [status |-> 500, text |-> "Error 500"]}

Ok(response) == response.status >= 200 /\ response.status <= 299

\* JSON.parse(responseText) throws on a body that is no JSON.
IsJson(text) == text = "{}"

\* The SyntaxError JSON.parse throws on the bodies of Responses that are
\* no JSON; the message is the one of V8.
JSONParseError(text) ==
    ThrownError(CASE text = "not json" ->
                       "Unexpected token 'o', \"not json\" is not valid JSON"
                  [] text = "Bad Request" ->
                       "Unexpected token 'B', \"Bad Request\" is not valid JSON"
                  [] text = "Not Found" ->
                       "Unexpected token 'N', \"Not Found\" is not valid JSON"
                  [] OTHER ->
                       "Unexpected token 'E', \"" \o text \o "\" is not valid JSON")

\* SearchParams once ParseSort and ParseFilter are resolved.
SearchParamsType(sort, filter) ==
    IF sort = Valid
    THEN IF filter = Valid
         THEN "params"
         ELSE "[Error on filter_by]: " \o filter
    ELSE "[Error on sort_by]: " \o sort

\* The type SearchParams resolves to: the parameter object, or a message.
SearchParams(Schema, FilterBy, SortBy) ==
    SearchParamsType(SortParse(SortBy, Schema), Parse(FilterBy, Schema))

SearchParamsOf(r) == SearchParams(Collections[r.name], r.filter_by, r.sort_by)

\* The clock when the application has the configuration in hand: the
\* millisecond at which configure set lastAccessTimestamp, or a time later
\* than that by more than the health check interval.
CallTimes == {0, HealthcheckIntervalSeconds * 1000 + 1}

RequestInit ==
    /\ schema = "none"
    /\ input = <<>>
    /\ T = <<>>
    /\ Acc = <<>>
    /\ result = "none"
    /\ \/ request \in Searches /\ config \in SearchConfigurations /\ pc = "compile"
       \/ request \in Posts /\ config \in Configurations /\ pc = "call"
    /\ now \in CallTimes
    /\ frame = NoFrame
    /\ node = NoNodeYet
    /\ requests = <<>>
    /\ responses = <<>>
    /\ outcome = Pending
    /\ healthCalls = 0

\* The compiler rejects the call: its argument is not of type SearchParams,
\* which is the message of the validator.
Reject ==
    /\ pc = "compile"
    /\ request.checked
    /\ SearchParamsOf(request) # "params"
    /\ outcome' = [name |-> "TypeError", message |-> SearchParamsOf(request)]
    /\ pc' = "done"
    /\ UNCHANGED <<config, now, request, frame, node, requests, responses, healthCalls>>
    /\ UNCHANGED lexer

\* search(name, searchParams, config) runs: it turns the parameters into
\* URLSearchParams and calls makeRequest.
Search ==
    /\ pc = "compile"
    /\ ~request.checked \/ SearchParamsOf(request) = "params"
    /\ frame' = [method |-> "GET", body |-> Absent,
                 params |-> <<"q", request.filter_by, request.sort_by>>,
                 endpoint |-> "/collections/" \o request.name \o "/documents/search",
                 currentNodeIndex |-> 0, attempt |-> 1]
    /\ pc' = "makeRequest"
    /\ UNCHANGED <<config, now, request, node, requests, responses, outcome, healthCalls>>
    /\ UNCHANGED lexer

\* The application calls makeRequest itself.
Call ==
    /\ pc = "call"
    /\ frame' = [method |-> request.method, body |-> request.body,
                 params |-> request.params, endpoint |-> request.endpoint,
                 currentNodeIndex |-> 0, attempt |-> 1]
    /\ pc' = "makeRequest"
    /\ UNCHANGED <<config, now, request, node, requests, responses, outcome, healthCalls>>
    /\ UNCHANGED lexer

\* The nodes of the configuration and its nearest node.
NodesOf(c) ==
    ({c.nodes[i] : i \in DOMAIN c.nodes} \cup {c.nearestNode}) \ {NoNearestNode}

\* An unhealthy node is not yet due for a health check, so that Date.now()
\* has a later value to give at which getNextNode returns another node.
\* getNextNode reads the clock for the unhealthy nodes only, and
\* setNodeHealth writes lastAccessTimestamp whenever it writes isHealthy:
\* once every unhealthy node is due, more time changes nothing but the
\* value of the clock.
Waiting ==
    \E n \in NodesOf(config) :
       /\ ~n.isHealthy
       /\ ~nodeDueForHealthcheck(n, config.healthcheckIntervalSeconds, now)

\* Time passes, before the application calls makeRequest and while
\* makeRequest awaits fetch, the body or the timer: the clock runs on by
\* one millisecond more than the health check interval, after which every
\* node is due.  Without such a step between them two readings of the
\* clock find the same millisecond, and a sleep ends on the millisecond its
\* timer was set for.
Tick ==
    /\ pc \in {"call", "fetch", "text", "sleep"}
    /\ Waiting
    /\ now' = now + config.healthcheckIntervalSeconds * 1000 + 1
    /\ UNCHANGED <<pc, config, request, frame, node, requests, responses, outcome, healthCalls>>
    /\ UNCHANGED lexer

\* The application calls the exported setNodeHealth on a node or on the
\* nearest node of the configuration, before it calls makeRequest or while
\* makeRequest awaits fetch, the body or the timer.
SetNodeHealth ==
    /\ pc \in {"call", "fetch", "text", "sleep"}
    /\ healthCalls < MaxHealthCalls
    /\ healthCalls' = healthCalls + 1
    /\ \E isHealthy \in BOOLEAN :
          \/ \E i \in DOMAIN config.nodes :
                /\ config.nodes[i] # NoNearestNode
                /\ config' = [config EXCEPT
                                !.nodes[i] = setNodeHealth(@, isHealthy, now)]
          \/ /\ config.nearestNode # NoNearestNode
             /\ config' = [config EXCEPT
                             !.nearestNode = setNodeHealth(@, isHealthy, now)]
    /\ UNCHANGED <<pc, now, request, frame, node, requests, responses, outcome>>
    /\ UNCHANGED lexer

NextNode ==
    getNextNode(config.nodes, config.nearestNode,
                config.healthcheckIntervalSeconds, frame.currentNodeIndex, now)

\* makeRequest: getNextNode throws, outside the try block.
NoNode ==
    /\ pc = "makeRequest"
    /\ NextNode.err # ""
    /\ outcome' = Error(NextNode.err)
    /\ pc' = "done"
    /\ UNCHANGED <<config, now, request, frame, node, requests, responses, healthCalls>>
    /\ UNCHANGED lexer

\* makeRequest: getNextNode, constructUrl, and the call of fetch.
Fetch ==
    /\ pc = "makeRequest"
    /\ NextNode.err = ""
    /\ node' = [node |-> NextNode.node, nextIndex |-> NextNode.nextIndex]
    /\ requests' = Append(requests,
                     [url |-> constructUrl(NextNode.node.url, frame.params, frame.endpoint),
                      method |-> frame.method, body |-> frame.body])
    /\ pc' = "fetch"
    /\ UNCHANGED <<config, now, request, frame, responses, outcome, healthCalls>>
    /\ UNCHANGED lexer

\* The values fetch rejects with: the Error of the tests, and what a
\* replacement of fetch may reject with: a string and null.
Rejections ==
    {ThrownError("Network error"),
     Thrown("string", FALSE, "", JsonText("\"timeout\""), "timeout"),
     ThrownNull}

\* The catch block: error is bound and new Error(getErrorMessage(error))
\* is thrown.
Caught(error) ==
    /\ frame' = frame @@ [error |-> error]
    /\ outcome' = Error(getErrorMessage(error))
    /\ pc' = "done"

\* fetch rejects.
FetchRejects ==
    /\ pc = "fetch"
    /\ \E error \in Rejections : Caught(error)
    /\ UNCHANGED <<config, now, request, node, requests, responses, healthCalls>>
    /\ UNCHANGED lexer

\* fetch resolves with a response; makeRequest awaits response.text().
FetchResolves ==
    /\ pc = "fetch"
    /\ \E response \in Responses : responses' = Append(responses, response)
    /\ pc' = "text"
    /\ UNCHANGED <<config, now, request, frame, node, requests, outcome, healthCalls>>
    /\ UNCHANGED lexer

\* The response makeRequest is reading.
Response == responses[Len(responses)]

\* response.text() rejects: the body cannot be read.
TextRejects ==
    /\ pc = "text"
    /\ Caught(ThrownError("body stream error"))
    /\ UNCHANGED <<config, now, request, node, requests, responses, healthCalls>>
    /\ UNCHANGED lexer

\* The body is read and response.ok: the parsed body is returned.
ResponseOk ==
    /\ pc = "text"
    /\ Ok(Response)
    /\ IsJson(Response.text)
    /\ outcome' = Resolved(Response.text)
    /\ pc' = "done"
    /\ UNCHANGED <<config, now, request, frame, node, requests, responses, healthCalls>>
    /\ UNCHANGED lexer

\* The body is read and response.ok, and JSON.parse throws.
ResponseNoJson ==
    /\ pc = "text"
    /\ Ok(Response)
    /\ ~IsJson(Response.text)
    /\ Caught(JSONParseError(Response.text))
    /\ UNCHANGED <<config, now, request, node, requests, responses, healthCalls>>
    /\ UNCHANGED lexer

\* The body is read and response.status < 500
ResponseBelow500 ==
    /\ pc = "text"
    /\ ~Ok(Response)
    /\ BelowServerError(Response.status)
    /\ outcome' = RequestError(Response.status, Response.text, frame.attempt)
    /\ pc' = "done"
    /\ UNCHANGED <<config, now, request, frame, node, requests, responses, healthCalls>>
    /\ UNCHANGED lexer

\* The body is read and attemptNum > config.numRetries
ResponseLast ==
    /\ pc = "text"
    /\ ~Ok(Response)
    /\ ~BelowServerError(Response.status)
    /\ RetriesExhausted(frame.attempt, config.numRetries)
    /\ outcome' = RequestError(Response.status, Response.text, frame.attempt)
    /\ pc' = "done"
    /\ UNCHANGED <<config, now, request, frame, node, requests, responses, healthCalls>>
    /\ UNCHANGED lexer

\* ResponseRetry with the node that answered marked unhealthy by
\* setNodeHealth before the sleep.
ResponseRetryMarksUnhealthy ==
    /\ pc = "text"
    /\ ~Ok(Response)
    /\ ~BelowServerError(Response.status)
    /\ ~RetriesExhausted(frame.attempt, config.numRetries)
    /\ config' =
          [config EXCEPT
             !.nodes = [i \in DOMAIN config.nodes |->
                          IF config.nodes[i] = node.node
                          THEN setNodeHealth(config.nodes[i], FALSE, now)
                          ELSE config.nodes[i]],
             !.nearestNode = IF config.nearestNode = node.node
                             THEN setNodeHealth(config.nearestNode, FALSE, now)
                             ELSE config.nearestNode]
    /\ frame' = frame @@ [timer |-> now + config.retryIntervalSeconds * 1000]
    /\ pc' = "sleep"
    /\ UNCHANGED <<now, request, node, requests, responses, outcome, healthCalls>>
    /\ UNCHANGED lexer

\* The body of a server error is read with retries left: makeRequest
\* calls sleep(config.retryIntervalSeconds * 1000), which sets a timer.
ResponseRetry ==
    /\ pc = "text"
    /\ ~Ok(Response)
    /\ ~BelowServerError(Response.status)
    /\ ~RetriesExhausted(frame.attempt, config.numRetries)
    /\ frame' = frame @@ [timer |-> now + config.retryIntervalSeconds * 1000]
    /\ pc' = "sleep"
    /\ UNCHANGED <<config, now, request, node, requests, responses, outcome, healthCalls>>
    /\ UNCHANGED lexer

\* The callback of the timer of sleep runs, at the end of the interval or
\* later when the clock has run on since: makeRequest calls itself with
\* method, config, body, params, the next index and the next attempt.
Retry ==
    /\ pc = "sleep"
    /\ now' = IF now < frame.timer THEN frame.timer ELSE now
    /\ frame' = [method |-> frame.method, body |-> frame.body,
                 params |-> frame.params, endpoint |-> Absent,
                 currentNodeIndex |-> node.nextIndex,
                 attempt |-> frame.attempt + 1]
    /\ pc' = "makeRequest"
    /\ UNCHANGED <<config, request, node, requests, responses, outcome, healthCalls>>
    /\ UNCHANGED lexer

\* The steps makeRequest takes by itself: the code up to the call of
\* fetch, and the callback of the timer.
Scheduled == NoNode \/ Fetch \/ Retry

\* fetch settles.
FetchSettles == FetchRejects \/ FetchResolves

\* response.text() settles and makeRequest runs on to its next await,
\* return or throw.
TextSettles ==
    \/ TextRejects \/ ResponseOk \/ ResponseNoJson
    \/ ResponseBelow500 \/ ResponseLast \/ ResponseRetry

\* The steps of makeRequest.
MakeRequest == Scheduled \/ FetchSettles \/ TextSettles

RequestNext == Reject \/ Search \/ Call \/ Tick \/ SetNodeHealth \/ MakeRequest

SpecRequest == RequestInit /\ [][RequestNext]_vars

\* A makeRequest that was called runs on: its code is scheduled and the
\* timer of sleep fires.  Whether fetch and response.text() settle is up
\* to the network: makeRequest passes no signal and sets no timeout.
FairSpecRequest == RequestInit /\ [][RequestNext]_vars /\ WF_vars(Scheduled)

RequestTypeOK ==
    /\ pc \in {"compile", "call", "makeRequest", "fetch", "text", "sleep", "done"}
    /\ Len(responses) <= Len(requests)

-----------------------------------------------------------------------------
(* Properties of search and makeRequest                                    *)

\* The call is a search whose filter_by or sort_by is Invalid.
InvalidSearch == request.op = "search" /\ SearchParamsOf(request) # "params"

\* C18: for a search whose filter_by or sort_by is Invalid no fetch call
\* is issued, and the call ends with the message of the validator.
C18_NoFetchWhenInvalid ==
    InvalidSearch =>
        /\ requests = <<>>
        /\ pc = "done" => outcome.message = SearchParamsOf(request)

\* The same for the calls the compiler checks: the call is rejected with
\* the message and search never runs.
C18_CheckedSearchRejected ==
    (InvalidSearch /\ request.checked) =>
        /\ requests = <<>>
        /\ pc = "done" => outcome = [name |-> "TypeError",
                                     message |-> SearchParamsOf(request)]

\* Every fetch call was answered, and with a status of 500 or more.
AllServerErrors ==
    /\ requests # <<>>
    /\ Len(responses) = Len(requests)
    /\ \A i \in DOMAIN responses : responses[i].status >= 500

\* The catch block of the running makeRequest caught something.
Thrower == "error" \in DOMAIN frame

\* response.text() rejected: the body of the last response was not read.
BodyRejected ==
    /\ Thrower
    /\ Len(responses) = Len(requests)
    /\ frame.error = ThrownError("body stream error")

\* C19 as stated: makeRequest issues at most numRetries + 1 fetch calls and
\* its promise settles; when every fetch call is answered with a status of
\* 500 or more it issues exactly numRetries + 1 calls and rejects with a
\* RequestError of the status and body of the last response.
C19_BoundedRetries ==
    /\ [](Len(requests) <= config.numRetries + 1)
    /\ (pc = "makeRequest") ~> (pc = "done")
    /\ []((pc = "done" /\ AllServerErrors) =>
            /\ Len(requests) = config.numRetries + 1
            /\ outcome = RequestError(responses[Len(responses)].status,
                                      responses[Len(responses)].text,
                                      config.numRetries + 1))

\* What holds of every call: makeRequest issues at most numRetries + 1 fetch
\* calls, and a call that ends after server errors whose bodies were all
\* read made numRetries + 1 of them and rejects with the RequestError of
\* the last response.
C19_AtMostRetries ==
    /\ Len(requests) <= config.numRetries + 1
    /\ (pc = "done" /\ AllServerErrors /\ ~BodyRejected) =>
          /\ Len(requests) = config.numRetries + 1
          /\ outcome = RequestError(Response.status, Response.text,
                                    config.numRetries + 1)

\* The response is not ok and its status is below 500.
ClientError(response) == ~Ok(response) /\ response.status < 500

FetchRejected == Thrower /\ Len(responses) < Len(requests)

\* C25: when fetch rejects, makeRequest rejects at once: no fetch call and
\* no sleep follows whatever numRetries is, and the promise is rejected
\* with an Error; its message is the message of the value fetch rejected
\* with when that value has one.
C25_NetworkErrorRejectsAtOnce ==
    FetchRejected =>
        /\ pc = "done"
        /\ Len(requests) = frame.attempt
        /\ Len(responses) = frame.attempt - 1
        /\ outcome.name = "Error"
        /\ isErrorWithMessage(frame.error) => outcome = Error(frame.error.message)

\* Two nodes, numRetries = 1: fetch rejects with Error("Network error") at
\* the first attempt, and that was the only fetch call.
C25_Witness ==
    /\ FetchRejected
    /\ Len(config.nodes) = 2
    /\ config.numRetries = 1
    /\ frame.attempt = 1
    /\ Len(requests) = 1
    /\ frame.error = ThrownError("Network error")
    /\ outcome = Error("Network error")

\* isHealthy and lastAccessTimestamp of a node
Health(n) == [isHealthy |-> n.isHealthy, lastAccessTimestamp |-> n.lastAccessTimestamp]

\* The health state of the nodes and of the nearest node of the
\* configuration.
HealthState ==
    [nodes |-> [i \in DOMAIN config.nodes |-> Health(config.nodes[i])],
     nearestNode |-> Health(config.nearestNode)]

\* C26: no step of makeRequest changes the isHealthy flag or the
\* lastAccessTimestamp of a node or of the nearest node, whatever the
\* responses are: they change only when the application calls
\* setNodeHealth.
C26_HealthUntouched == [][MakeRequest => HealthState' = HealthState]_vars

\* Two healthy nodes after two fetch calls answered 500: both are
\* still healthy and their lastAccessTimestamp is still 0, one second or
\* more after the first call.
C26_Witness ==
    /\ pc = "done"
    /\ config.retryIntervalSeconds = 1
    /\ healthCalls = 0
    /\ now >= 1000
    /\ Len(requests) = 2
    /\ AllServerErrors
    /\ responses[2].status = 500
    /\ config.nearestNode = NoNearestNode
    /\ Len(config.nodes) = 2
    /\ HealthState.nodes = <<[isHealthy |-> TRUE, lastAccessTimestamp |-> 0],
                              [isHealthy |-> TRUE, lastAccessTimestamp |-> 0]>>

\* The node a fetch call went to.
Target(i) == requests[i].url.base

\* C21: with two nodes or more in the configuration, two consecutive
\* fetch calls of one request go to different nodes.
C21_RetryOnAnotherNode ==
    Len(config.nodes) >= 2 =>
        \A i \in 1..(Len(requests) - 1) : Target(i) # Target(i + 1)

\* The same when every node is healthy, there is no nearest node and the
\* application leaves the health of the nodes alone: then the rotation
\* moves on at each retry.
C21_RotationOfHealthyNodes ==
    (/\ Len(config.nodes) >= 2
     /\ healthCalls = 0
     /\ \A k \in DOMAIN config.nodes : config.nodes[k] # NoNearestNode
     /\ config.nearestNode = NoNearestNode
     /\ \A k \in DOMAIN config.nodes : config.nodes[k].isHealthy) =>
        \A i \in 1..(Len(requests) - 1) : Target(i) # Target(i + 1)

\* What a fetch call carries besides the base URL of its node.
Payload(i) ==
    [method |-> requests[i].method, body |-> requests[i].body,
     query |-> requests[i].url.query, path |-> requests[i].url.path]

\* C22: every fetch call of a request has the method, the body, the query
\* parameters and the endpoint path of the first one.
C22_RetryRepeatsTheRequest ==
    \A i \in DOMAIN requests : Payload(i) = Payload(1)

\* The same without the path: method, body and query parameters are those
\* of the first fetch call.
C22_RetryRepeatsAllButThePath ==
    \A i \in DOMAIN requests :
        /\ Payload(i).method = Payload(1).method
        /\ Payload(i).body = Payload(1).body
        /\ Payload(i).query = Payload(1).query

-----------------------------------------------------------------------------
(* getNextNode as a state machine                                          *)

\* The time of the call, in milliseconds, and the times of the last access
\* of a node: two seconds ago, one second ago (not yet due with an interval
\* of one second) and now.
CallTime == 2000
AccessTimes == {0, 1000, 2000}

\* createNode(index, isHealthy) of the tests, with its lastAccessTimestamp
\* set as the tests set it.
TsNode(index, isHealthy, lastAccessTimestamp) ==
    [url |-> NodeUrls[index + 1], isHealthy |-> isHealthy,
     lastAccessTimestamp |-> lastAccessTimestamp]

\* createNearestNode(isHealthy) of the tests, the same way.
TsNearestNode(isHealthy, lastAccessTimestamp) ==
    [url |-> "http://nearest.example.com", isHealthy |-> isHealthy,
     lastAccessTimestamp |-> lastAccessTimestamp]

\* The lists of up to MaxNodes + 1 elements, each a node or missing: the
\* tests use three.
TsNodeLists[n \in 0..(MaxNodes + 1)] ==
    IF n = 0 THEN {<<>>}
    ELSE {Append(l, e) :
            l \in TsNodeLists[n - 1],
            e \in {NoNearestNode}
                   \cup {TsNode(n - 1, h, t) : h \in BOOLEAN, t \in AccessTimes}}

TsNearestNodes ==
    {NoNearestNode} \cup {TsNearestNode(h, t) : h \in BOOLEAN, t \in AccessTimes}

\* The arguments of a call of getNextNode: currentIndex is 0 or an index
\* that getNextNode returned, which is below the number of nodes.
NodeInit ==
    /\ schema = "none"
    /\ input = <<>>
    /\ T = <<>>
    /\ Acc = <<>>
    /\ result = "none"
    /\ request = "none"
    /\ requests = <<>>
    /\ responses = <<>>
    /\ now = CallTime
    /\ \E n \in 0..(MaxNodes + 1) :
          /\ config \in [nodes : TsNodeLists[n],
                         nearestNode : TsNearestNodes,
                         healthcheckIntervalSeconds : {HealthcheckIntervalSeconds}]
          /\ \E currentIndex \in 0..(IF n = 0 THEN 0 ELSE n - 1) :
                frame = [currentNodeIndex |-> currentIndex]
    /\ node = NoNodeYet
    /\ outcome = Pending
    /\ healthCalls = 0
    /\ pc = "getNextNode"

\* getNextNode throws.
GetNextNodeThrows ==
    /\ pc = "getNextNode"
    /\ NextNode.err # ""
    /\ outcome' = Error(NextNode.err)
    /\ pc' = "done"
    /\ UNCHANGED <<config, now, request, frame, node, requests, responses, healthCalls>>
    /\ UNCHANGED lexer

\* getNextNode returns {node, nextIndex}.
GetNextNodeReturns ==
    /\ pc = "getNextNode"
    /\ NextNode.err = ""
    /\ node' = [node |-> NextNode.node, nextIndex |-> NextNode.nextIndex]
    /\ outcome' = Resolved("node")
    /\ pc' = "done"
    /\ UNCHANGED <<config, now, request, frame, requests, responses, healthCalls>>
    /\ UNCHANGED lexer

NodeNext == GetNextNodeThrows \/ GetNextNodeReturns

SpecNode == NodeInit /\ [][NodeNext]_vars

-----------------------------------------------------------------------------
(* Properties of getNextNode                                               *)

\* The element of nodes is a node, and the node is healthy or its last
\* access is more than the interval ago.
IsNode(n) == n # NoNearestNode
Usable(n) ==
    /\ IsNode(n)
    /\ \/ n.isHealthy
       \/ now - n.lastAccessTimestamp > config.healthcheckIntervalSeconds * 1000

\* The index at the i-th place of the rotation that starts at currentIndex,
\* and the element there.
RotatedIndex(i) == (frame.currentNodeIndex + i) % Len(config.nodes)
Rotated(i) == config.nodes[RotatedIndex(i) + 1]

\* The places of the rotation whose node is usable, and those without node.
UsablePlaces == {i \in 0..(Len(config.nodes) - 1) : Usable(Rotated(i))}
MissingPlaces == {i \in 0..(Len(config.nodes) - 1) : ~IsNode(Rotated(i))}

\* The first place of a non-empty set of places.
FirstPlace(places) == CHOOSE i \in places : \A j \in places : i <= j
FirstUsablePlace == FirstPlace(UsablePlaces)

\* C23 as stated: with an empty node list getNextNode throws `No nodes
\* available`.  Otherwise it returns the nearest node with nextIndex =
\* currentIndex when there is a nearest node and it is healthy or due for a
\* health check; otherwise the first node of the rotation currentIndex,
\* currentIndex + 1, ... (mod n) that is healthy or due, or the node at
\* (currentIndex + 1) mod n when there is none, with nextIndex =
\* (currentIndex + 1) mod n.
C23_GetNextNode ==
    pc = "done" =>
        IF Len(config.nodes) = 0
        THEN outcome = Error("No nodes available")
        ELSE /\ outcome = Resolved("node")
             /\ IF Usable(config.nearestNode)
                THEN /\ node.node = config.nearestNode
                     /\ node.nextIndex = frame.currentNodeIndex
                ELSE /\ node.nextIndex =
                            (frame.currentNodeIndex + 1) % Len(config.nodes)
                     /\ node.node = IF UsablePlaces # {}
                                    THEN Rotated(FirstUsablePlace)
                                    ELSE Rotated(1)

\* C23: the same for a list whose elements are all nodes; when the nearest
\* node is not returned and an element of the list is missing, getNextNode
\* throws `Missing node at index i` for the first such index i of the
\* rotation, whatever the health of the nodes is.
C23_GetNextNodeOrMissing ==
    pc = "done" =>
        IF Len(config.nodes) = 0
        THEN outcome = Error("No nodes available")
        ELSE IF Usable(config.nearestNode)
        THEN /\ outcome = Resolved("node")
             /\ node.node = config.nearestNode
             /\ node.nextIndex = frame.currentNodeIndex
        ELSE IF MissingPlaces # {}
        THEN outcome = Error("Missing node at index "
                             \o ToString(RotatedIndex(FirstPlace(MissingPlaces))))
        ELSE /\ outcome = Resolved("node")
             /\ node.nextIndex = (frame.currentNodeIndex + 1) % Len(config.nodes)
             /\ node.node = IF UsablePlaces # {}
                            THEN Rotated(FirstUsablePlace)
                            ELSE Rotated(1)

\* Three nodes, no usable nearest node, currentIndex = 1: the nodes at 1
\* and 2 are unhealthy and not due, the node at 0 is healthy; getNextNode
\* returns the node at 0 and nextIndex = 2.
C23_Witness ==
    /\ pc = "done"
    /\ outcome = Resolved("node")
    /\ Len(config.nodes) = 3
    /\ MissingPlaces = {}
    /\ ~Usable(config.nearestNode)
    /\ frame.currentNodeIndex = 1
    /\ UsablePlaces = {2}
    /\ node.node = config.nodes[1]
    /\ node.nextIndex = 2

\* The node at 0 is healthy and the element at 1 is missing: getNextNode
\* throws although the first node of the rotation is healthy.
C23_MissingNode ==
    /\ pc = "done"
    /\ Len(config.nodes) = 2
    /\ config.nearestNode = NoNearestNode
    /\ frame.currentNodeIndex = 0
    /\ config.nodes[1].isHealthy
    /\ MissingPlaces = {1}
    /\ outcome = Error("Missing node at index 1")

\* The first clause of C23 taken alone: whenever the nearest node is healthy
\* or due, getNextNode returns it.
C23_NearestWhateverTheNodes ==
    (pc = "done" /\ Usable(config.nearestNode)) =>
        /\ outcome = Resolved("node")
        /\ node.node = config.nearestNode

-----------------------------------------------------------------------------
(* configure as a state machine                                            *)

\* The time of the call of configure, in seconds.
ConfigureTime == 1

\* The NodeConfigurations of an application: a url, or host, port and
\* protocol with or without a path.
NodeConfigurations ==
    {[url |-> "http://localhost", host |-> Absent, port |-> Absent,
      protocol |-> Absent, path |-> Absent],
     [url |-> Absent, host |-> "localhost", port |-> "8108",
      protocol |-> "http", path |-> Absent],
     [url |-> Absent, host |-> "localhost", port |-> "8109",
      protocol |-> "http", path |-> "/api"]}

\* No nearestNode in the CreateConfiguration
NoNodeConfiguration ==
    [url |-> Absent, host |-> Absent, port |-> Absent, protocol |-> Absent,
     path |-> Absent]

\* handleNodeType(node)
handleNodeType(n, clock) ==
    [url |-> IF n.url # Absent THEN n.url
             ELSE IF n.path # Absent /\ n.path # ""
                  THEN n.protocol \o "://" \o n.host \o ":" \o n.port \o n.path
                  ELSE n.protocol \o "://" \o n.host \o ":" \o n.port,
     isHealthy |-> TRUE,
     lastAccessTimestamp |-> clock]

\* initializeNodes({nodes, nearestNode})
initializeNodes(nodes, nearestNode, clock) ==
    [nodes |-> [i \in DOMAIN nodes |-> handleNodeType(nodes[i], clock)],
     nearestNode |-> IF nearestNode = NoNodeConfiguration THEN NoNearestNode
                     ELSE handleNodeType(nearestNode, clock)]

\* An optional number of a CreateConfiguration: left out, or given.
Missing == [given |-> FALSE, value |-> 0]
Given(n) == [given |-> TRUE, value |-> n]

\* A value that is true in a condition: not undefined and not 0.
Truthy(x) == x.given /\ x.value # 0

\* x ?? d
Coalesce(x, d) == IF x.given THEN x.value ELSE d

\* configure(config)
configure(c, clock) ==
    LET initialized == initializeNodes(c.nodes, c.nearestNode, clock)
    IN  [nodes |-> initialized.nodes,
         nearestNode |-> initialized.nearestNode,
         numRetries |->
             IF Truthy(c.numRetries) /\ c.numRetries.value >= 0
             THEN c.numRetries.value
             ELSE Len(initialized.nodes)
                    + (IF initialized.nearestNode # NoNearestNode THEN 0 ELSE 1),
         healthcheckIntervalSeconds |-> Coalesce(c.healthcheckIntervalSeconds, 60),
         retryIntervalSeconds |-> Coalesce(c.retryIntervalSeconds, 1)]

NodeConfigurationLists[n \in 0..MaxNodes] ==
    IF n = 0 THEN {<<>>}
    ELSE {Append(l, c) : l \in NodeConfigurationLists[n - 1], c \in NodeConfigurations}

\* The CreateConfigurations of an application.
CreateConfigurations ==
    [nodes : UNION {NodeConfigurationLists[n] : n \in 0..MaxNodes},
     nearestNode : {NoNodeConfiguration} \cup NodeConfigurations,
     numRetries : {Missing} \cup {Given(n) : n \in -1..MaxRetries},
     healthcheckIntervalSeconds : {Missing, Given(30)},
     retryIntervalSeconds : {Missing, Given(0)}]

ConfigureInit ==
    /\ schema = "none"
    /\ input = <<>>
    /\ T = <<>>
    /\ Acc = <<>>
    /\ result = "none"
    /\ request \in CreateConfigurations
    /\ config = "none"
    /\ now = ConfigureTime
    /\ frame = NoFrame
    /\ node = NoNodeYet
    /\ requests = <<>>
    /\ responses = <<>>
    /\ outcome = Pending
    /\ healthCalls = 0
    /\ pc = "configure"

\* The application calls configure.
Configure ==
    /\ pc = "configure"
    /\ config' = configure(request, now)
    /\ pc' = "done"
    /\ UNCHANGED <<now, request, frame, node, requests, responses, outcome, healthCalls>>
    /\ UNCHANGED lexer

ConfigureNext == Configure

SpecConfigure == ConfigureInit /\ [][ConfigureNext]_vars

-----------------------------------------------------------------------------
(* Properties of configure                                                 *)

\* The numRetries of a configuration that names none.
DefaultRetries ==
    Len(request.nodes) + (IF request.nearestNode # NoNodeConfiguration THEN 0 ELSE 1)

\* C24: configure keeps a numRetries that is a number of 0 or more, and
\* otherwise sets it to the number of nodes plus 1, or to the number of
\* nodes when there is a nearest node.
C24_NumRetries ==
    pc = "done" =>
        config.numRetries =
            IF request.numRetries.given /\ request.numRetries.value >= 0
            THEN request.numRetries.value
            ELSE DefaultRetries

\* The same for a numRetries of 1 or more; a numRetries of 0 is replaced as
\* a missing or negative one is.
C24_PositiveNumRetries ==
    pc = "done" =>
        config.numRetries =
            IF request.numRetries.given /\ request.numRetries.value >= 1
            THEN request.numRetries.value
            ELSE DefaultRetries

-----------------------------------------------------------------------------
(* Further properties of the sort validator                                *)

\* The token is a sort key: an identifier or an _eval
IsKey(t) == t.kind \in {"ident", "eval"}

\* The token is a direction
IsDirection(t) == IsSym(t, {"asc", "desc"})

\* The direction at place i of the tokens closes a key: it follows a colon
\* that follows an identifier, its configuration, or an _eval.
BelongsToKey(i) ==
    /\ i >= 3
    /\ IsSym(Acc[i - 1], {":"})
    /\ IsKey(Acc[i - 2]) \/ Acc[i - 2].kind = "config"

\* C27: a sort expression that is Valid and is not empty begins with a
\* sort key, and each of its directions belongs to a key.
C27_DirectionsBelongToKeys ==
    (pc = "done" /\ result = Valid /\ Acc # <<>>) =>
        /\ IsKey(Acc[1])
        /\ \A i \in DOMAIN Acc : IsDirection(Acc[i]) => BelongsToKey(i)

\* What holds of every Valid expression: a direction is followed by a
\* comma or ends the expression, and a comma is followed by a key.
C27_AfterDirectionAndComma ==
    (pc = "done" /\ result = Valid) =>
        \A i \in DOMAIN Acc :
            /\ IsDirection(Acc[i]) => (i = Len(Acc) \/ IsSym(Acc[i + 1], {","}))
            /\ IsSym(Acc[i], {","}) => (i < Len(Acc) /\ IsKey(Acc[i + 1]))

\* C28: a sortable field of the collection with a direction is Valid,
\* whatever the name of the field.
C28_AnySortableName ==
    (/\ pc = "done"
     /\ \E n \in UsersNames \cup ItemsNames \cup NotesNames, d \in Directions :
           /\ input = n \o d
           /\ SortableBy(Str(n), NumericTypes)) => result = Valid

\* The same for the names that begin neither with `asc` nor with `desc`.
C28_OtherSortableNames ==
    (/\ pc = "done"
     /\ \E n \in UsersNames \cup ItemsNames \cup NotesNames, d \in Directions :
           /\ input = n \o d
           /\ ~StartsWith(n, <<"a", "s", "c">>)
           /\ ~StartsWith(n, <<"d", "e", "s", "c">>)
           /\ SortableBy(Str(n), NumericTypes)) => result = Valid

-----------------------------------------------------------------------------
(* Further properties of the filter validator                              *)

\* A string literal or a number
IsValueToken(t) == t.kind \in {"int", "literal"}

\* The number of `:[` before place i of the tokens that no `]` closed.
RECURSIVE OpenLists(_)
OpenLists(i) ==
    IF i <= 1 THEN 0
    ELSE IF IsSym(Acc[i - 1], {":["}) THEN OpenLists(i - 1) + 1
    ELSE IF IsSym(Acc[i - 1], {"]"}) /\ OpenLists(i - 1) > 0 THEN OpenLists(i - 1) - 1
    ELSE OpenLists(i - 1)

\* C29: in a Valid filter expression a string literal or a number is the
\* operand of a comparison operator or stands inside `:[ ... ]`, and a
\* comma or `..` stands inside `:[ ... ]`.
C29_ValuesAreOperands ==
    (Tokenized /\ result = Valid) =>
        \A i \in DOMAIN Acc :
            /\ IsValueToken(Acc[i]) =>
                  \/ i > 1 /\ IsSym(Acc[i - 1], ComparisonOperators)
                  \/ OpenLists(i) > 0
            /\ IsSym(Acc[i], {",", ".."}) => OpenLists(i) > 0

\* The places of the identifiers whose type has no entry in
\* TypeToOperatorMap.
UnsupportedIdentifiers ==
    {i \in DOMAIN Acc : Acc[i].kind = "ident" /\ Acc[i].type \notin TypeToOperatorKeys}

\* C30: an expression with an identifier whose type has no entry in
\* TypeToOperatorMap is Invalid, whatever follows the identifier, the end
\* of the expression included; a comparison of such a field with a value
\* is Invalid with the message that names the identifier and the operator
\* (for the operators that are keys of OperatorMap, which `:!=` is not).
C30_NoOperatorForType ==
    (Tokenized /\ UnsupportedIdentifiers # {}) =>
        /\ result \notin {Valid, TooDeep}
        /\ (/\ Len(Acc) = 3
            /\ UnsupportedIdentifiers = {1}
            /\ IsSym(Acc[2], ComparisonOperators \cap OperatorKeys)
            /\ IsValueToken(Acc[3])) =>
              result = "Invalid token sequence: identifier with name "
                         \o BT \o Acc[1].name \o BT \o " followed by "
                         \o GetTokenType(Acc[2])

\* loc:=5 against notes, where loc is a geopoint.
C30_Witness ==
    /\ Tokenized
    /\ schema = "notes"
    /\ Acc = <<Ident("loc", "geopoint"), Sym(":="), NumToken(<<"5">>)>>
    /\ result = "Invalid token sequence: identifier with name " \o BT \o "loc"
                   \o BT \o " followed by " \o BT \o ":=" \o BT

====
